---- MODULE Spec2Model ----
(***************************************************************************)
(* Verification model of the off-the-grid matching core: the Spectrum      *)
(* constant-product pool (spectrum/pool.rs), the single grid order         *)
(* (grid/grid_order.rs), the multi-entry grid order                        *)
(* (grid/multigrid_order.rs), the multi-entry filling engine               *)
(* (boxes/liquidity_box.rs) and the matcher's change gate                  *)
(* (commands/matcher.rs).                                                  *)
(*                                                                         *)
(* Integer widths.  The program's amounts are u64/i64 values bounded by    *)
(* i64::MAX (ergo-lib's TokenAmount and BoxValue both range over           *)
(* 1..=i64::MAX).  The model keeps every range check of the code but       *)
(* scales the width: I64_MAX stands for i64::MAX and U64_MAX for u64::MAX, *)
(* so that the checker's integers can hold every intermediate product.     *)
(* BigInt arithmetic of the code is unbounded integer arithmetic here.     *)
(***************************************************************************)
EXTENDS Integers, Sequences, FiniteSets, TLC

VARIABLES
    overflow_checks,  \* the build: TRUE panics on integer overflow, FALSE wraps
    pool,       \* SpecPool: the SpectrumPool value held by the caller
    call,       \* SpecPool: the last LiquidityProvider call (op, arg, before, res)
    tokens,     \* SpecPool: the Token inputs the caller draws from
    steps,      \* SpecPool: number of with_swap calls made so far
    grid,             \* SpecGrid: the GridOrder
    grid_hist,        \* SpecGrid: the orders into_filled was applied to, oldest first
    grid_res,         \* SpecGrid: outcome of the last into_filled call
    candidate,        \* SpecGrid: the last box candidate built, and the order it was built from
    multi,            \* SpecMulti: the MultiGridOrder
    multi_hist,       \* SpecMulti: the orders with_entries was applied to, oldest first
    multi_res,        \* SpecMulti: outcome of the last with_entries call
    multi_profit,     \* SpecMulti: the last profit() outcome, and the order it was asked of
    current_ids,      \* SpecGate: BoxIdGate.current_ids
    gate_hist,        \* SpecGate: the check_box_ids calls made (id set, result), oldest first
    gate_before,      \* SpecGate: current_ids before the last call
    engine,               \* SpecFill: "single" (FillGridOrders) or "multi" (FillMultiGridOrders)
    fill_self,            \* SpecFill: the pool fill_orders is called on
    grid_orders,          \* SpecFill: the orders given to fill_orders
    matched_states,       \* SpecFill: per order, its OrderMatchingState
    liquidity_x_diff,     \* SpecFill: running delta of asset_x
    liquidity_y_diff,     \* SpecFill: running delta of asset_y
    current_surplus,      \* SpecFill: running surplus
    total_input_amount,   \* SpecFill: single-order engine, cumulative input of the net swap
    total_output_amount,  \* SpecFill: single-order engine, cumulative output of the net swap
    fill_pc,              \* SpecFill: "loop", "finish" or "done"
    fill_res,             \* SpecFill: what fill_orders returned
    skipped,              \* SpecFill: the orders whose candidate computation gave None
                          \* in some iteration so far
    fills,                \* SpecFill: number of fills committed so far
    ladder,           \* SpecLadder: the GridOrderEntries
    ladder_call,      \* SpecLadder: the last into_fill_bid / into_fill_ask call (op, before, res)
    ov_txs,           \* SpecOverlay: the unconfirmed transactions not yet replayed
    spent_boxes,      \* SpecOverlay: MempoolOverlay.spent_boxes
    created_boxes,    \* SpecOverlay: MempoolOverlay.created_boxes (the ids; a box is determined by its id)
    ov_base,          \* SpecOverlay: the base record stream the view was made of
    box_iter,         \* SpecOverlay: MempoolOverlayIter.box_iter, what is left of it
    overlay_created,  \* SpecOverlay: MempoolOverlayIter.overlay_created, what is left of it
    view,             \* SpecOverlay: the records the iterator has yielded
    ov_pc,            \* SpecOverlay: "replay", "iter" or "done"
    box_id_gate,      \* SpecMatcher: box_id_gate.current_ids of handle_matcher_command
    matcher_pc,       \* SpecMatcher: "poll", "match", "sleep", or "returned" once the function has returned
    cur_poll,         \* SpecMatcher: the current loop iteration: ids, gate result, engine call, its result, sleep
    prev_poll,        \* SpecMatcher: the iteration before it
    ergo_box,         \* SpecDecode: the ErgoBox given to try_from
    decoded,          \* SpecDecode: the decoder applied last and what it returned
    settlement        \* SpecFill: what match_orders returned and the transaction it submitted

poolVars == <<pool, call, tokens, steps>>
gridVars == <<grid, grid_hist, grid_res, candidate>>
multiVars == <<multi, multi_hist, multi_res, multi_profit>>
gateVars == <<current_ids, gate_hist, gate_before>>
fillVars == <<engine, fill_self, grid_orders, matched_states, liquidity_x_diff,
              liquidity_y_diff, current_surplus, total_input_amount,
              total_output_amount, fill_pc, fill_res, skipped, fills>>

ladderVars == <<ladder, ladder_call>>

overlayVars == <<ov_txs, spent_boxes, created_boxes, ov_base, box_iter, overlay_created, view, ov_pc>>

matcherVars == <<box_id_gate, matcher_pc, cur_poll, prev_poll>>

decodeVars == <<ergo_box, decoded>>

settleVars == <<settlement>>

vars == <<overflow_checks, poolVars, gridVars, multiVars, gateVars, fillVars, ladderVars, overlayVars, matcherVars, decodeVars, settleVars>>

notPool == <<overflow_checks, gridVars, multiVars, gateVars, fillVars, ladderVars, overlayVars, matcherVars, decodeVars, settleVars>>
notGrid == <<poolVars, multiVars, gateVars, fillVars, ladderVars, overlayVars, matcherVars, decodeVars, settleVars>>
notMulti == <<poolVars, gridVars, gateVars, fillVars, ladderVars, overlayVars, matcherVars, decodeVars, settleVars>>
notGate == <<overflow_checks, poolVars, gridVars, multiVars, fillVars, ladderVars, overlayVars, matcherVars, decodeVars, settleVars>>
notFill == <<poolVars, gridVars, multiVars, gateVars, ladderVars, overlayVars, matcherVars, decodeVars, settleVars>>
notLadder == <<overflow_checks, poolVars, gridVars, multiVars, gateVars, fillVars, overlayVars, matcherVars, decodeVars, settleVars>>
notOverlay == <<overflow_checks, poolVars, gridVars, multiVars, gateVars, fillVars, ladderVars, matcherVars, decodeVars, settleVars>>
notMatcher == <<overflow_checks, poolVars, gridVars, multiVars, gateVars, fillVars, ladderVars, overlayVars, decodeVars, settleVars>>
notDecode == <<overflow_checks, poolVars, gridVars, multiVars, gateVars, fillVars, ladderVars, overlayVars, matcherVars, settleVars>>
notSettle == <<overflow_checks, poolVars, gridVars, multiVars, gateVars, fillVars, ladderVars, overlayVars, matcherVars, decodeVars>>

(***************************************************************************)
(* Bounds of the model                                                     *)
(***************************************************************************)
\* stands for i64::MAX (TokenAmount::MAX_RAW, BoxValue::MAX_RAW)
I64_MAX == 8388607
\* small pools have reserves 1..MaxReserve
MaxReserve == 5
\* small swap inputs / requested outputs are 1..MaxInput
MaxInput == 6
\* with_swap calls per behaviour
MaxSwaps == 2
\* into_filled calls per behaviour
MaxFills == 3
\* entries per MultiGridOrder
MaxEntries == 2
\* entries of a ladder given to into_fill_bid / into_fill_ask
MaxLadder == 3
\* with_entries calls per behaviour
MaxWith == 2
\* into_fill_bid / into_fill_ask calls between two with_entries calls
MaxChain == 2
\* box ids are 1..MaxIds, and a check_box_ids argument has up to MaxIds ids
MaxIds == 2
\* check_box_ids calls per behaviour
MaxCalls == 4

U64_MAX == 2 * I64_MAX + 1

(***************************************************************************)
(* Result<T, E> values, and a panic as a third outcome                     *)
(***************************************************************************)
Ok(v) == [tag |-> "Ok", val |-> v]
Err(e) == [tag |-> "Err", val |-> e]
Panic(m) == [tag |-> "Panic", val |-> m]
IsOk(r) == r.tag = "Ok"

Abs(n) == IF n < 0 THEN -n ELSE n

\* the sequences of 1..n elements of S
SeqsUpTo(S, n) == UNION {[1..k -> S] : k \in 1..n}

\* BigInt `/`: truncates toward zero; the caller handles the zero divisor,
\* on which num-bigint panics.
BigIntDiv(a, b) ==
    IF (a >= 0) = (b > 0) THEN Abs(a) \div Abs(b) ELSE -(Abs(a) \div Abs(b))

\* Ord of Fraction (GenericFraction<u128>): a / b <= c / d for naturals a, c and positive b, d, by comparing the
\* continued fractions (no product is formed)
RECURSIVE FracLeq(_, _, _, _)
FracLeq(a, b, c, d) ==
    IF a \div b # c \div d THEN a \div b < c \div d
    ELSE IF a % b = 0 THEN TRUE
    ELSE IF c % d = 0 THEN FALSE
    ELSE FracLeq(d, c % d, b, a % b)

\* BigInt::to_u64: None unless 0 <= v <= u64::MAX
to_u64(v) == IF v >= 0 /\ v <= U64_MAX THEN Ok(v) ELSE Err("None")

\* TokenAmount::try_from(u64): 1 ..= i64::MAX
TokenAmount_try_from(v) ==
    IF v >= 1 /\ v <= I64_MAX THEN Ok(v) ELSE Err("TokenAmountError")

\* TokenAmount::checked_add / checked_sub
checked_add(a, b) == TokenAmount_try_from(a + b)
checked_sub(a, b) == TokenAmount_try_from(a - b)

(***************************************************************************)
(* Tokens and pools                                                        *)
(***************************************************************************)
ERG_TOKEN_ID == "ERG"
\* the traded asset of the pools and orders of the model
ASSET_Y_ID == "TKN"
\* a token id that is in no pool
OTHER_ID == "OTHER"

Token(id, amount) == [token_id |-> id, amount |-> amount]

SpectrumPool(x, y, fee_num, fee_denom) ==
    [asset_x |-> Token(ERG_TOKEN_ID, x), asset_y |-> Token(ASSET_Y_ID, y),
     fee_num |-> fee_num, fee_denom |-> fee_denom]

amm_factor(self) == self.asset_x.amount * self.asset_y.amount

can_swap(self, token_id) ==
    token_id = self.asset_x.token_id \/ token_id = self.asset_y.token_id

\* mutant of output_amount: the quotient is rounded up instead of down
output_amount_ceil(self, input) ==
    IF ~can_swap(self, input.token_id) THEN Err("MissingToken")
    ELSE
    LET fromX == input.token_id = self.asset_x.token_id
        from == IF fromX THEN self.asset_x ELSE self.asset_y
        to == IF fromX THEN self.asset_y ELSE self.asset_x
        num == to.amount * input.amount * self.fee_num
        den == from.amount * self.fee_denom + input.amount * self.fee_num
        out == BigIntDiv(num, den) + 1
    IN  IF ~IsOk(TokenAmount_try_from(out)) THEN Err("TokenAmountError")
        ELSE Ok(Token(to.token_id, out))

\* mutant of output_amount: the output is paid in the input's own asset
output_amount_same_asset(self, input) ==
    IF ~can_swap(self, input.token_id) THEN Err("MissingToken")
    ELSE
    LET fromX == input.token_id = self.asset_x.token_id
        from == IF fromX THEN self.asset_x ELSE self.asset_y
        to == IF fromX THEN self.asset_y ELSE self.asset_x
        num == to.amount * input.amount * self.fee_num
        den == from.amount * self.fee_denom + input.amount * self.fee_num
        out == BigIntDiv(num, den)
    IN  IF ~IsOk(TokenAmount_try_from(out)) THEN Err("TokenAmountError")
        ELSE Ok(Token(from.token_id, out))

output_amount(self, input) ==
    IF ~can_swap(self, input.token_id) THEN Err("MissingToken")
    ELSE
    LET fromX == input.token_id = self.asset_x.token_id
        from == IF fromX THEN self.asset_x ELSE self.asset_y
        to == IF fromX THEN self.asset_y ELSE self.asset_x
        from_amount == from.amount
        to_amount == to.amount
        input_amount_ == input.amount
        num == to_amount * input_amount_ * self.fee_num
        den == from_amount * self.fee_denom + input_amount_ * self.fee_num
    IN  IF den = 0 THEN Panic("attempt to divide by zero")
        ELSE
        LET output_amount_ == BigIntDiv(num, den)
        IN  IF ~IsOk(to_u64(output_amount_)) THEN Err("InsufficientLiquidity")
            ELSE IF ~IsOk(TokenAmount_try_from(output_amount_))
                 THEN Err("TokenAmountError")
            ELSE Ok(Token(to.token_id, output_amount_))

\* mutant of input_amount: the `+ 1` is dropped
input_amount_no_ceil(self, output) ==
    IF ~can_swap(self, output.token_id) THEN Err("MissingToken")
    ELSE
    LET wantY == output.token_id = self.asset_y.token_id
        from == IF wantY THEN self.asset_x ELSE self.asset_y
        to == IF wantY THEN self.asset_y ELSE self.asset_x
        num == from.amount * output.amount * self.fee_denom
        den == (to.amount - output.amount) * self.fee_num
    IN  IF den = 0 THEN Panic("attempt to divide by zero")
        ELSE
        LET q == BigIntDiv(num, den)
        IN  IF ~IsOk(to_u64(q)) THEN Err("BigIntTruncated")
            ELSE IF ~IsOk(TokenAmount_try_from(q)) THEN Err("TokenAmountError")
            ELSE Ok(Token(from.token_id, q))

input_amount(self, output) ==
    IF ~can_swap(self, output.token_id) THEN Err("MissingToken")
    ELSE
    LET wantY == output.token_id = self.asset_y.token_id
        from == IF wantY THEN self.asset_x ELSE self.asset_y
        to == IF wantY THEN self.asset_y ELSE self.asset_x
        from_amount == from.amount
        to_amount == to.amount
        output_amount_ == output.amount
        num == from_amount * output_amount_ * self.fee_denom
        den == (to_amount - output_amount_) * self.fee_num
    IN  IF den = 0 THEN Panic("attempt to divide by zero")
        ELSE
        LET input_amount_ == BigIntDiv(num, den) + 1
        IN  IF ~IsOk(to_u64(input_amount_)) THEN Err("BigIntTruncated")
            ELSE IF ~IsOk(TokenAmount_try_from(input_amount_))
                 THEN Err("TokenAmountError")
            ELSE Ok(Token(from.token_id, input_amount_))

with_swap(self, input) ==
    LET output == output_amount(self, input)
    IN  IF ~IsOk(output) THEN output
        ELSE
        LET inX == input.token_id = self.asset_x.token_id
            x_amount == IF inX
                        THEN checked_add(self.asset_x.amount, input.amount)
                        ELSE checked_sub(self.asset_x.amount, output.val.amount)
            y_amount == IF inX
                        THEN checked_sub(self.asset_y.amount, output.val.amount)
                        ELSE checked_add(self.asset_y.amount, input.amount)
        IN  IF ~IsOk(x_amount) \/ ~IsOk(y_amount) THEN Err("TokenAmountError")
            ELSE Ok([self EXCEPT !.asset_x.amount = x_amount.val,
                                 !.asset_y.amount = y_amount.val])

(***************************************************************************)
(* Values of the variables of the components a specification leaves out    *)
(***************************************************************************)
PoolIdle == pool = "idle" /\ call = "idle" /\ tokens = {} /\ steps = 0
GridIdle ==
    grid = "idle" /\ grid_hist = <<>> /\ grid_res = "idle" /\ candidate = "idle"
MultiIdle ==
    multi = "idle" /\ multi_hist = <<>> /\ multi_res = "idle" /\ multi_profit = "idle"
GateIdle ==
    current_ids = {} /\ gate_hist = <<>> /\ gate_before = {}
LadderIdle == ladder = <<>> /\ ladder_call = "idle"
OverlayIdle ==
    /\ ov_txs = <<>> /\ spent_boxes = {} /\ created_boxes = {} /\ ov_base = <<>>
    /\ box_iter = <<>> /\ overlay_created = {} /\ view = <<>> /\ ov_pc = "idle"
MatcherIdle ==
    box_id_gate = {} /\ matcher_pc = "idle" /\ cur_poll = "idle" /\ prev_poll = "idle"
DecodeIdle == ergo_box = "idle" /\ decoded = "idle"
SettleIdle == settlement = [tag |-> "Idle", submitted |-> FALSE, inputs |-> <<>>, outputs |-> <<>>]
FillIdle ==
    /\ engine = "idle" /\ fill_self = "idle" /\ grid_orders = <<>>
    /\ matched_states = <<>> /\ liquidity_x_diff = 0 /\ liquidity_y_diff = 0
    /\ current_surplus = 0 /\ total_input_amount = 0 /\ total_output_amount = 0
    /\ fill_pc = "idle" /\ fill_res = "idle" /\ skipped = {}
    /\ fills = 0

(***************************************************************************)
(* SpecPool: a caller holding one pool quotes and swaps against it         *)
(***************************************************************************)
\* fee_num / fee_denom of the generated pools, 0 < fee_num <= fee_denom
Fees == {<<1, 2>>, <<2, 3>>, <<1, 1>>}

SmallPools ==
    {SpectrumPool(x, y, f[1], f[2]) : x \in 1..MaxReserve, y \in 1..MaxReserve, f \in Fees}

SmallTokens ==
    {Token(id, a) : id \in {ERG_TOKEN_ID, ASSET_Y_ID}, a \in 1..MaxInput}
        \cup {Token(OTHER_ID, 1)}

\* tests::swap_output, with the asset_x amounts counted in units of 10^6
\* (the quotient of output_amount is unchanged when from_amount and the
\* input are divided by a common factor)
ExamplePool == SpectrumPool(1000, 1000, 998, 1000)
ExampleInput == Token(ERG_TOKEN_ID, 500)

\* pools with one reserve at the top of the TokenAmount range
WideXPools == {SpectrumPool(I64_MAX - d, y, f[1], f[2]) :
                  d \in {0, 4}, y \in {3, 5}, f \in {<<1, 2>>, <<1, 1>>}}
WideXTokens ==
    {Token(ERG_TOKEN_ID, a) : a \in {1, 4, I64_MAX}}
        \cup {Token(ASSET_Y_ID, a) : a \in 1..4}
WideYPools == {SpectrumPool(3000, I64_MAX - 1, 1, 1)}
WideYTokens ==
    {Token(ASSET_Y_ID, a) : a \in {1, 3000}}
        \cup {Token(ERG_TOKEN_ID, a) : a \in 1..4}

PoolScenarios ==
    {[pools |-> SmallPools, tokens |-> SmallTokens],
     [pools |-> {ExamplePool}, tokens |-> {ExampleInput, Token(ERG_TOKEN_ID, 1)}],
     [pools |-> WideXPools, tokens |-> WideXTokens],
     [pools |-> WideYPools, tokens |-> WideYTokens]}

NoCall(p) ==
    [op |-> "none", arg |-> Token(OTHER_ID, 1), before |-> p, res |-> Err("none")]

PoolInit ==
    /\ \E s \in PoolScenarios :
          /\ pool \in s.pools
          /\ tokens = s.tokens
    /\ call = NoCall(pool)
    /\ steps = 0
    /\ overflow_checks = FALSE
    /\ GridIdle /\ MultiIdle /\ GateIdle /\ FillIdle /\ LadderIdle /\ OverlayIdle /\ MatcherIdle /\ DecodeIdle /\ SettleIdle

WithSwap ==
    /\ steps < MaxSwaps
    /\ \E input \in tokens :
          LET res == with_swap(pool, input)
          IN  /\ call' = [op |-> "with_swap", arg |-> input, before |-> pool, res |-> res]
              /\ pool' = IF IsOk(res) THEN res.val ELSE pool
    /\ steps' = steps + 1
    /\ UNCHANGED <<tokens, notPool>>

OutputAmount ==
    /\ \E input \in tokens :
          call' = [op |-> "output_amount", arg |-> input, before |-> pool,
                   res |-> output_amount(pool, input)]
    /\ UNCHANGED <<pool, tokens, steps, notPool>>

InputAmount ==
    /\ \E output \in tokens :
          call' = [op |-> "input_amount", arg |-> output, before |-> pool,
                   res |-> input_amount(pool, output)]
    /\ UNCHANGED <<pool, tokens, steps, notPool>>

PoolNext == WithSwap \/ OutputAmount \/ InputAmount

SpecPool == PoolInit /\ [][PoolNext]_vars

(***************************************************************************)
(* GridOrder (grid/grid_order.rs)                                          *)
(***************************************************************************)
MIN_BOX_VALUE == 1000000
\* MAX_FEE of grid_order.rs, the miner fee of a settlement
MAX_FEE == 2000000

\* u64 `+` and `-`: a build with overflow checks panics when the result
\* leaves 0..u64::MAX, a build without them wraps modulo 2^64
u64_add(a, b, checks) ==
    IF a + b <= U64_MAX THEN Ok(a + b)
    ELSE IF checks THEN Panic("attempt to add with overflow")
    ELSE Ok(a + b - (U64_MAX + 1))

u64_sub(a, b, checks) ==
    IF a >= b THEN Ok(a - b)
    ELSE IF checks THEN Panic("attempt to subtract with overflow")
    ELSE Ok(a - b + (U64_MAX + 1))

\* BoxValue::try_from(u64): 1 ..= i64::MAX
BoxValue_try_from(v) ==
    IF v >= 1 /\ v <= I64_MAX THEN Ok(v) ELSE Err("BoxValueError")

\* mutant of GridOrder_new: a Buy order is created without its bid collateral
GridOrder_new_no_collateral(bid_value, ask_value, token, state, checks) ==
    LET value == BoxValue_try_from(MIN_BOX_VALUE)
    IN  IF ~IsOk(value) THEN value
        ELSE Ok([bid_value |-> bid_value, ask_value |-> ask_value, token |-> token,
                 state |-> state, value |-> value.val])

GridOrder_new(bid_value, ask_value, token, state, checks) ==
    LET raw == IF state = "Sell" THEN Ok(MIN_BOX_VALUE)
               ELSE u64_add(MIN_BOX_VALUE, bid_value, checks)
    IN  IF ~IsOk(raw) THEN raw
        ELSE
        LET value == BoxValue_try_from(raw.val)
        IN  IF ~IsOk(value) THEN value
            ELSE Ok([bid_value |-> bid_value, ask_value |-> ask_value, token |-> token,
                     state |-> state, value |-> value.val])

profit(self, checks) ==
    IF self.state = "Sell" THEN u64_sub(self.value, MIN_BOX_VALUE, checks)
    ELSE LET d == u64_sub(self.value, MIN_BOX_VALUE, checks)
         IN  IF ~IsOk(d) THEN d ELSE u64_sub(d.val, self.bid_value, checks)

\* mutant of into_filled: a buy fill releases ask_value instead of bid_value
into_filled_buy_pays_ask(self, checks) ==
    LET raw == IF self.state = "Sell" THEN u64_add(self.value, self.ask_value, checks)
               ELSE u64_sub(self.value, self.ask_value, checks)
    IN  IF ~IsOk(raw) THEN raw
        ELSE
        LET value == BoxValue_try_from(raw.val)
        IN  IF ~IsOk(value) THEN value
            ELSE Ok([self EXCEPT !.value = value.val,
                                 !.state = IF self.state = "Sell" THEN "Buy" ELSE "Sell"])

\* mutant of into_filled: the value moves but the state is not flipped
into_filled_keeps_state(self, checks) ==
    LET raw == IF self.state = "Sell" THEN u64_add(self.value, self.ask_value, checks)
               ELSE u64_sub(self.value, self.bid_value, checks)
    IN  IF ~IsOk(raw) THEN raw
        ELSE
        LET value == BoxValue_try_from(raw.val)
        IN  IF ~IsOk(value) THEN value
            ELSE Ok([self EXCEPT !.value = value.val])

into_filled(self, checks) ==
    LET raw == IF self.state = "Sell" THEN u64_add(self.value, self.ask_value, checks)
               ELSE u64_sub(self.value, self.bid_value, checks)
    IN  IF ~IsOk(raw) THEN raw
        ELSE
        LET value == BoxValue_try_from(raw.val)
        IN  IF ~IsOk(value) THEN value
            ELSE Ok([self EXCEPT !.value = value.val,
                                 !.state = IF self.state = "Sell" THEN "Buy" ELSE "Sell"])

\* i64::try_from(u64)
i64_try_from(v) == IF v <= I64_MAX THEN Ok(v) ELSE Err("TryFromIntError")

\* GridOrder::into_box_candidate: the value, the tokens and the registers
\* R5 = (bid, ask) and R6 = (token id, amount) of the box
into_box_candidate(self) ==
    IF \/ ~IsOk(i64_try_from(self.token.amount))
       \/ ~IsOk(i64_try_from(self.bid_value))
       \/ ~IsOk(i64_try_from(self.ask_value))
    THEN Err("TryFromIntError")
    ELSE Ok([value |-> self.value,
             tokens |-> IF self.state = "Buy" THEN <<>> ELSE <<self.token>>,
             R5 |-> <<self.bid_value, self.ask_value>>,
             R6 |-> <<self.token.token_id, self.token.amount>>])

(***************************************************************************)
(* SpecGrid: one order made by GridOrder::new is filled again and again    *)
(***************************************************************************)
\* bid and ask values of the generated orders (ask below, equal to and
\* above bid all occur)
GridValues == {1, 2, 3, MIN_BOX_VALUE, I64_MAX - MIN_BOX_VALUE}
GridAmounts == {1, 2}

GridInit ==
    /\ overflow_checks \in BOOLEAN
    /\ \E bid \in GridValues, ask \in GridValues, a \in GridAmounts, st \in {"Buy", "Sell"} :
          LET made == GridOrder_new(bid, ask, Token(ASSET_Y_ID, a), st, overflow_checks)
          IN  /\ IsOk(made)
              /\ grid = made.val
    /\ grid_hist = <<>>
    /\ grid_res = Ok("new")
    /\ candidate = [of |-> <<>>, box |-> Err("none")]
    /\ PoolIdle /\ MultiIdle /\ GateIdle /\ FillIdle /\ LadderIdle /\ OverlayIdle /\ MatcherIdle /\ DecodeIdle /\ SettleIdle

IntoFilled ==
    /\ IsOk(grid_res)
    /\ Len(grid_hist) < MaxFills
    /\ LET filled == into_filled(grid, overflow_checks)
       IN  /\ grid_res' = filled
           /\ grid' = IF IsOk(filled) THEN filled.val ELSE grid
           /\ grid_hist' = Append(grid_hist, grid)
    /\ UNCHANGED <<candidate, overflow_checks, notGrid>>

IntoBoxCandidate ==
    /\ IsOk(grid_res)
    /\ candidate' = [of |-> <<grid>>, box |-> into_box_candidate(grid)]
    /\ UNCHANGED <<grid, grid_hist, grid_res, overflow_checks, notGrid>>

GridNext == IntoFilled \/ IntoBoxCandidate

SpecGrid == GridInit /\ [][GridNext]_vars

(***************************************************************************)
(* MultiGridOrder (grid/multigrid_order.rs)                                *)
(***************************************************************************)
\* `v as i64` of a u64 v
as_i64(v) == IF v <= I64_MAX THEN v ELSE v - (U64_MAX + 1)

\* i64 `+` and `-`: a build with overflow checks panics when the result
\* leaves i64::MIN..i64::MAX, a build without them wraps modulo 2^64
i64_wrap(v, checks) ==
    IF v >= -I64_MAX - 1 /\ v <= I64_MAX THEN Ok(v)
    ELSE IF checks THEN Panic("arithmetic overflow")
    ELSE IF v > I64_MAX THEN Ok(v - (U64_MAX + 1)) ELSE Ok(v + (U64_MAX + 1))

i64_add(a, b, checks) == i64_wrap(a + b, checks)
i64_sub(a, b, checks) == i64_wrap(a - b, checks)

GridOrderEntry(state, token_amount, bid_value, ask_value) ==
    [state |-> state, token_amount |-> token_amount,
     bid_value |-> bid_value, ask_value |-> ask_value]

\* GridOrderEntry::bid() <= GridOrderEntry::bid(), and the same for ask()
bid_leq(a, b) == FracLeq(a.bid_value, a.token_amount, b.bid_value, b.token_amount)
ask_leq(a, b) == FracLeq(a.ask_value, a.token_amount, b.ask_value, b.token_amount)

\* mutant of bid_entry: the Buy entry with the lowest bid
bid_entry_lowest(entries) ==
    LET buys == {i \in DOMAIN entries : entries[i].state = "Buy"}
    IN  IF buys = {} THEN 0
        ELSE CHOOSE i \in buys : \A j \in buys :
                 IF j < i THEN ~bid_leq(entries[j], entries[i])
                 ELSE bid_leq(entries[i], entries[j])

\* GridOrderEntries::bid_entry: the index of the Buy entry with the highest
\* bid (max_by_key: the last one of equal keys), 0 for None
bid_entry(entries) ==
    LET buys == {i \in DOMAIN entries : entries[i].state = "Buy"}
    IN  IF buys = {} THEN 0
        ELSE CHOOSE i \in buys : \A j \in buys :
                 IF j > i THEN ~bid_leq(entries[i], entries[j])
                 ELSE bid_leq(entries[j], entries[i])

\* GridOrderEntries::ask_entry: the index of the Sell entry with the lowest
\* ask (min_by_key: the first one of equal keys), 0 for None
ask_entry(entries) ==
    LET sells == {i \in DOMAIN entries : entries[i].state = "Sell"}
    IN  IF sells = {} THEN 0
        ELSE CHOOSE i \in sells : \A j \in sells :
                 IF j < i THEN ~ask_leq(entries[j], entries[i])
                 ELSE ask_leq(entries[i], entries[j])

\* mutant of into_fill_ask: the first Sell entry is flipped, whatever its ask
into_fill_ask_first(entries) ==
    LET sells == {i \in DOMAIN entries : entries[i].state = "Sell"}
    IN  IF sells = {} THEN Err("NoAskOrders")
        ELSE Ok([entries EXCEPT ![CHOOSE i \in sells : \A j \in sells : i <= j].state = "Buy"])

into_fill_ask(entries) ==
    LET i == ask_entry(entries)
    IN  IF i = 0 THEN Err("NoAskOrders")
        ELSE Ok([entries EXCEPT ![i].state = "Buy"])

into_fill_bid(entries) ==
    LET i == bid_entry(entries)
    IN  IF i = 0 THEN Err("NoBidOrders")
        ELSE Ok([entries EXCEPT ![i].state = "Sell"])

\* sum of bid_value over the Buy entries i..Len(entries)
RECURSIVE buy_bids(_, _)
buy_bids(entries, i) ==
    IF i > Len(entries) THEN 0
    ELSE (IF entries[i].state = "Buy" THEN entries[i].bid_value ELSE 0)
             + buy_bids(entries, i + 1)

\* MultiGridOrder::new: the checked_add fold yields None as soon as a
\* partial sum leaves u64, which is when the whole sum does
MultiGridOrder_new(entries) ==
    LET sum == MIN_BOX_VALUE + buy_bids(entries, 1)
    IN  IF sum > U64_MAX THEN Err("ValueOverflow")
        ELSE LET value == BoxValue_try_from(sum)
             IN  IF ~IsOk(value) THEN value
                 ELSE Ok([entries |-> entries, value |-> value.val])

\* mutant of with_entries_fold: a sell fill returns the bid collateral
\* instead of collecting ask_value
RECURSIVE with_entries_fold_adds_bid(_, _, _, _, _)
with_entries_fold_adds_bid(old, new, i, value, checks) ==
    IF i > Len(old) \/ i > Len(new) THEN Ok(value)
    ELSE LET next ==
                 IF old[i].state = "Buy" /\ new[i].state = "Sell"
                 THEN i64_sub(value, as_i64(old[i].bid_value), checks)
                 ELSE IF old[i].state = "Sell" /\ new[i].state = "Buy"
                 THEN i64_add(value, as_i64(old[i].bid_value), checks)
                 ELSE Ok(value)
         IN  IF ~IsOk(next) THEN next
             ELSE with_entries_fold_adds_bid(old, new, i + 1, next.val, checks)

\* the fold of with_entries over the zipped entries, from index i
RECURSIVE with_entries_fold(_, _, _, _, _)
with_entries_fold(old, new, i, value, checks) ==
    IF i > Len(old) \/ i > Len(new) THEN Ok(value)
    ELSE LET next ==
                 IF old[i].state = "Buy" /\ new[i].state = "Sell"
                 THEN i64_sub(value, as_i64(old[i].bid_value), checks)
                 ELSE IF old[i].state = "Sell" /\ new[i].state = "Buy"
                 THEN i64_add(value, as_i64(old[i].ask_value), checks)
                 ELSE Ok(value)
         IN  IF ~IsOk(next) THEN next
             ELSE with_entries_fold(old, new, i + 1, next.val, checks)

with_entries(self, entries, checks) ==
    LET folded == with_entries_fold(self.entries, entries, 1, self.value, checks)
    IN  IF ~IsOk(folded) THEN folded
        ELSE LET value == BoxValue_try_from(folded.val)
             IN  IF ~IsOk(value) THEN value
                 ELSE Ok([entries |-> entries, value |-> value.val])

\* the fold of profit: MIN_BOX_VALUE plus the bids of the Buy entries from
\* index i on, in u64
RECURSIVE expected_value(_, _, _, _)
expected_value(entries, i, acc, checks) ==
    IF i > Len(entries) THEN Ok(acc)
    ELSE IF entries[i].state # "Buy" THEN expected_value(entries, i + 1, acc, checks)
    ELSE LET next == u64_add(acc, entries[i].bid_value, checks)
         IN  IF ~IsOk(next) THEN next
             ELSE expected_value(entries, i + 1, next.val, checks)

MultiGridOrder_profit(self, checks) ==
    LET expected == expected_value(self.entries, 1, MIN_BOX_VALUE, checks)
    IN  IF ~IsOk(expected) THEN expected
        ELSE u64_sub(self.value, expected.val, checks)

(***************************************************************************)
(* SpecMulti: one order made by MultiGridOrder::new is given new entries   *)
(* by with_entries again and again                                         *)
(***************************************************************************)
\* (token_amount, bid_value, ask_value) of the generated entries: ask above
\* bid, ask below bid, a bid that fills the box value range, and values
\* above i64::MAX
MultiShapes ==
    {<<1, 1, 3>>, <<2, 3, 1>>, <<1, I64_MAX - MIN_BOX_VALUE, 3>>,
     <<1, 3, U64_MAX - 2>>, <<2, U64_MAX - 2, 1>>}

MultiEntryDomain ==
    {GridOrderEntry(st, sh[1], sh[2], sh[3]) : st \in {"Buy", "Sell"}, sh \in MultiShapes}

\* entries after the fills named by chain ("bid" / "ask"), applied in order
RECURSIVE apply_fills(_, _)
apply_fills(entries, chain) ==
    IF chain = <<>> THEN Ok(entries)
    ELSE LET filled == IF Head(chain) = "bid" THEN into_fill_bid(entries)
                       ELSE into_fill_ask(entries)
         IN  IF ~IsOk(filled) THEN filled ELSE apply_fills(filled.val, Tail(chain))

MultiInit ==
    /\ overflow_checks \in BOOLEAN
    /\ \E entries \in SeqsUpTo(MultiEntryDomain, MaxEntries) :
          LET made == MultiGridOrder_new(entries)
          IN  /\ IsOk(made)
              /\ multi = made.val
    /\ multi_hist = <<>>
    /\ multi_res = Ok("new")
    /\ multi_profit = [of |-> <<>>, res |-> Err("none")]
    /\ PoolIdle /\ GridIdle /\ GateIdle /\ FillIdle /\ LadderIdle /\ OverlayIdle /\ MatcherIdle /\ DecodeIdle /\ SettleIdle

WithEntries ==
    /\ IsOk(multi_res)
    /\ Len(multi_hist) < MaxWith
    /\ \E chain \in SeqsUpTo({"bid", "ask"}, MaxChain) :
          LET entries == apply_fills(multi.entries, chain)
          IN  /\ IsOk(entries)
              /\ LET res == with_entries(multi, entries.val, overflow_checks)
                 IN  /\ multi_res' = res
                     /\ multi' = IF IsOk(res) THEN res.val ELSE multi
    /\ multi_hist' = Append(multi_hist, multi)
    /\ multi_profit' = [of |-> <<>>, res |-> Err("none")]
    /\ UNCHANGED <<overflow_checks, notMulti>>

Profit ==
    /\ IsOk(multi_res)
    /\ multi_profit' = [of |-> <<multi>>,
                        res |-> MultiGridOrder_profit(multi, overflow_checks)]
    /\ UNCHANGED <<multi, multi_hist, multi_res, overflow_checks, notMulti>>

MultiNext == WithEntries \/ Profit

SpecMulti == MultiInit /\ [][MultiNext]_vars

(***************************************************************************)
(* SpecLadder: into_fill_bid and into_fill_ask applied to a ladder         *)
(***************************************************************************)
\* (token_amount, bid_value, ask_value) of the generated entries: two
\* entries of equal bid and ask price, one with a higher bid and a lower
\* ask, one with a lower bid
LadderShapes == {<<1, 2, 3>>, <<2, 4, 6>>, <<1, 3, 2>>, <<3, 1, 9>>}

LadderEntryDomain ==
    {GridOrderEntry(st, sh[1], sh[2], sh[3]) : st \in {"Buy", "Sell"}, sh \in LadderShapes}

LadderInit ==
    /\ ladder \in SeqsUpTo(LadderEntryDomain, MaxLadder)
    /\ ladder_call = [op |-> "new", before |-> ladder, res |-> Ok(ladder)]
    /\ overflow_checks = FALSE
    /\ PoolIdle /\ GridIdle /\ MultiIdle /\ GateIdle /\ FillIdle /\ OverlayIdle /\ MatcherIdle /\ DecodeIdle /\ SettleIdle

\* entries.into_fill_bid(): the caller keeps the result, or on an error the
\* entries it had
IntoFillBid ==
    /\ ladder_call' = [op |-> "into_fill_bid", before |-> ladder,
                       res |-> into_fill_bid(ladder)]
    /\ ladder' = IF IsOk(into_fill_bid(ladder)) THEN into_fill_bid(ladder).val ELSE ladder
    /\ UNCHANGED notLadder

IntoFillAsk ==
    /\ ladder_call' = [op |-> "into_fill_ask", before |-> ladder,
                       res |-> into_fill_ask(ladder)]
    /\ ladder' = IF IsOk(into_fill_ask(ladder)) THEN into_fill_ask(ladder).val ELSE ladder
    /\ UNCHANGED notLadder

LadderNext == IntoFillBid \/ IntoFillAsk

SpecLadder == LadderInit /\ [][LadderNext]_vars

(***************************************************************************)
(* BoxIdGate (commands/matcher.rs)                                         *)
(***************************************************************************)
\* box_ids.iter().cloned().collect::<HashSet<_>>()
id_set(box_ids) == {box_ids[i] : i \in DOMAIN box_ids}

\* mutant of check_box_ids: the stored set follows every call
check_box_ids_always_store(stored, box_ids) ==
    LET new_id_set == id_set(box_ids)
        new_ids == new_id_set \ stored
    IN  IF new_ids = {}
        THEN [current_ids |-> new_id_set, res |-> [tag |-> "None"]]
        ELSE [current_ids |-> new_id_set,
              res |-> [tag |-> "Some", spent_ids |-> stored \ new_id_set,
                       new_ids |-> new_ids]]

\* mutant of check_box_ids: a call that returns Some adds the given ids to
\* the stored set instead of replacing it
check_box_ids_merge(stored, box_ids) ==
    LET new_id_set == id_set(box_ids)
        new_ids == new_id_set \ stored
    IN  IF new_ids = {}
        THEN [current_ids |-> stored, res |-> [tag |-> "None"]]
        ELSE [current_ids |-> stored \cup new_id_set,
              res |-> [tag |-> "Some", spent_ids |-> stored \ new_id_set,
                       new_ids |-> new_ids]]

\* BoxIdGate::check_box_ids on a gate storing `stored`: the gate's set after
\* the call and the returned value (the two Vecs, whose order is that of a
\* HashSet iteration, as sets)
check_box_ids(stored, box_ids) ==
    LET new_id_set == id_set(box_ids)
        new_ids == new_id_set \ stored
    IN  IF new_ids = {}
        THEN [current_ids |-> stored, res |-> [tag |-> "None"]]
        ELSE [current_ids |-> new_id_set,
              res |-> [tag |-> "Some", spent_ids |-> stored \ new_id_set,
                       new_ids |-> new_ids]]

(***************************************************************************)
(* SpecGate: check_box_ids is called again and again on a new gate         *)
(***************************************************************************)
BoxIds == 1..MaxIds

\* the slices check_box_ids is called with (the empty one included)
BoxIdSlices == {<<>>} \cup SeqsUpTo(BoxIds, MaxIds)

GateInit ==
    /\ current_ids = {}
    /\ gate_hist = <<>>
    /\ gate_before = {}
    /\ overflow_checks = FALSE
    /\ PoolIdle /\ GridIdle /\ MultiIdle /\ FillIdle /\ LadderIdle /\ OverlayIdle /\ MatcherIdle /\ DecodeIdle /\ SettleIdle

CheckBoxIds ==
    /\ Len(gate_hist) < MaxCalls
    /\ \E box_ids \in BoxIdSlices :
          LET r == check_box_ids(current_ids, box_ids)
          IN  /\ current_ids' = r.current_ids
              /\ gate_hist' = Append(gate_hist, [ids |-> id_set(box_ids), res |-> r.res])
    /\ gate_before' = current_ids
    /\ UNCHANGED notGate

GateNext == CheckBoxIds

SpecGate == GateInit /\ [][GateNext]_vars

(***************************************************************************)
(* MempoolOverlay and MempoolOverlayIter (commands/matcher.rs)             *)
(***************************************************************************)
\* unconfirmed transactions replayed per overlay
MaxTxs == 2

\* box ids; a box is determined by its id
OverlayIds == 1..5

\* TrackedBox::<T>::try_from(&ErgoBox) is Ok: box 3 is a box of another kind
Decodes(id) == id # 3

\* a Transaction: the box ids of its inputs and of its outputs. It has one
\* or two of each, and an output's id is derived from the transaction
\* that creates it, so it is not among the transaction's own inputs
Transactions ==
    {tx \in [inputs : (SUBSET OverlayIds) \ {{}}, outputs : (SUBSET OverlayIds) \ {{}}] :
        /\ Cardinality(tx.inputs) <= 2 /\ Cardinality(tx.outputs) <= 2
        /\ tx.inputs \cap tx.outputs = {}}

\* the order the node returns unconfirmed transactions in: a box is created
\* by one transaction only, and a transaction that spends an output of
\* another one comes after it
DependencyOrdered(txs) ==
    \A i, j \in DOMAIN txs :
        /\ i # j => txs[i].outputs \cap txs[j].outputs = {}
        /\ i < j => txs[i].inputs \cap txs[j].outputs = {}

\* the transaction lists of up to n transactions in that order
RECURSIVE OrderedTxs(_)
OrderedTxs(n) ==
    IF n = 0 THEN {<<>>}
    ELSE OrderedTxs(n - 1) \cup
         {s \in {Append(txs, tx) : txs \in {t \in OrderedTxs(n - 1) : Len(t) = n - 1},
                                   tx \in Transactions} : DependencyOrdered(s)}

\* mutant of add_transaction: a spent box stays in the created map
add_transaction_keeps_created(spent, created, tx) ==
    [spent_boxes |-> spent \cup tx.inputs,
     created_boxes |-> created \cup tx.outputs]

\* MempoolOverlay::add_transaction
add_transaction(spent, created, tx) ==
    [spent_boxes |-> spent \cup tx.inputs,
     created_boxes |-> (created \ tx.inputs) \cup tx.outputs]

OverlayInit ==
    /\ ov_txs \in OrderedTxs(MaxTxs)
    \* the base record stream: up to two decoded records of distinct boxes
    /\ ov_base \in {<<>>} \cup {b \in SeqsUpTo({id \in OverlayIds : Decodes(id)}, 2) :
                                    \A i, j \in DOMAIN b : i # j => b[i] # b[j]}
    /\ spent_boxes = {} /\ created_boxes = {}
    /\ box_iter = <<>> /\ overlay_created = {} /\ view = <<>>
    /\ ov_pc = "replay"
    /\ overflow_checks = FALSE
    /\ PoolIdle /\ GridIdle /\ MultiIdle /\ GateIdle /\ FillIdle /\ LadderIdle /\ MatcherIdle /\ DecodeIdle /\ SettleIdle

\* from_iter: one pass of `for tx in iter`
AddTransaction ==
    /\ ov_pc = "replay" /\ ov_txs # <<>>
    /\ spent_boxes' = add_transaction(spent_boxes, created_boxes, Head(ov_txs)).spent_boxes
    /\ created_boxes' = add_transaction(spent_boxes, created_boxes, Head(ov_txs)).created_boxes
    /\ ov_txs' = Tail(ov_txs)
    /\ UNCHANGED <<ov_base, box_iter, overlay_created, view, ov_pc, notOverlay>>

\* from_iter returns the overlay and base.overlay(&overlay) makes the iterator
MakeOverlayIter ==
    /\ ov_pc = "replay" /\ ov_txs = <<>>
    /\ box_iter' = ov_base
    /\ overlay_created' = created_boxes
    /\ ov_pc' = "iter"
    /\ UNCHANGED <<ov_txs, spent_boxes, created_boxes, ov_base, view, notOverlay>>

\* MempoolOverlayIter::next, a pass of its loop that takes a base record:
\* the record is returned unless its id is spent
NextBase ==
    /\ ov_pc = "iter" /\ box_iter # <<>>
    /\ box_iter' = Tail(box_iter)
    /\ view' = IF Head(box_iter) \notin spent_boxes
               THEN Append(view, Head(box_iter)) ELSE view
    /\ UNCHANGED <<ov_txs, spent_boxes, created_boxes, ov_base, overlay_created, ov_pc,
                   notOverlay>>

\* a pass that takes a created box (in the order of the HashMap, which is
\* any order): the box is returned if it decodes
NextCreated ==
    /\ ov_pc = "iter" /\ box_iter = <<>>
    /\ \E b \in overlay_created :
          /\ overlay_created' = overlay_created \ {b}
          /\ view' = IF Decodes(b) THEN Append(view, b) ELSE view
    /\ UNCHANGED <<ov_txs, spent_boxes, created_boxes, ov_base, box_iter, ov_pc, notOverlay>>

\* both iterators are exhausted: next returns None
NextNone ==
    /\ ov_pc = "iter" /\ box_iter = <<>> /\ overlay_created = {}
    /\ ov_pc' = "done"
    /\ UNCHANGED <<ov_txs, spent_boxes, created_boxes, ov_base, box_iter, overlay_created,
                   view, notOverlay>>

OverlayNext == AddTransaction \/ MakeOverlayIter \/ NextBase \/ NextCreated \/ NextNone

SpecOverlay == OverlayInit /\ [][OverlayNext]_vars

(***************************************************************************)
(* handle_matcher_command: the polling loop (commands/matcher.rs)          *)
(***************************************************************************)
\* the boxes that decode as a GridOrder and as a SpectrumPool; all of them
\* trade the same token
OrderBoxIds == {1, 2, 4}
PoolBoxIds == {3, 5}

\* what the three requests of one iteration return when they succeed: the
\* unspent boxes of the two scans and the unconfirmed transactions
Fetches ==
    [orders : SUBSET {1, 2}, pools : SUBSET {3},
     txs : {<<>>,
            <<[inputs |-> {1}, outputs |-> {4}]>>,
            <<[inputs |-> {3}, outputs |-> {5}]>>,
            <<[inputs |-> {1}, outputs |-> {4}]>>
                \o <<[inputs |-> {4}, outputs |-> {2}]>>}]

\* mempool_txs.into_iter().collect::<MempoolOverlay>()
RECURSIVE from_iter(_, _, _)
from_iter(spent, created, txs) ==
    IF txs = <<>> THEN [spent_boxes |-> spent, created_boxes |-> created]
    ELSE from_iter(add_transaction(spent, created, Head(txs)).spent_boxes,
                   add_transaction(spent, created, Head(txs)).created_boxes,
                   Tail(txs))

\* the ids of boxes.filter_map(try_into).overlay(&overlay).collect()
overlaid_ids(boxes, decoding, overlay) ==
    ((boxes \cap decoding) \ overlay.spent_boxes) \cup (overlay.created_boxes \cap decoding)

\* a Vec of the ids in S (in ascending order; check_box_ids collects its
\* argument into a set)
RECURSIVE id_vec(_)
id_vec(S) ==
    IF S = {} THEN <<>>
    ELSE <<CHOOSE x \in S : \A y \in S : x <= y>>
             \o id_vec(S \ {CHOOSE x \in S : \A y \in S : x <= y})

\* the ids given to check_box_ids in an iteration that fetched f: those of
\* the overlaid orders chained with those of the overlaid pools
polled_ids(f) ==
    id_vec(overlaid_ids(f.orders, OrderBoxIds, from_iter({}, {}, f.txs)))
        \o id_vec(overlaid_ids(f.pools, PoolBoxIds, from_iter({}, {}, f.txs)))

\* grouped_orders is not empty and a pool trades the group's token
has_match(f) ==
    /\ overlaid_ids(f.orders, OrderBoxIds, from_iter({}, {}, f.txs)) # {}
    /\ overlaid_ids(f.pools, PoolBoxIds, from_iter({}, {}, f.txs)) # {}

\* mutant of gate_branch: the match branch is taken whatever the gate says
gate_branch_always(res) == "match"

\* if box_id_gate.check_box_ids(..).is_some() { .. } else { sleep }
gate_branch(res) == IF res.tag = "Some" THEN "match" ELSE "sleep"

MatcherInit ==
    /\ box_id_gate = {}
    /\ matcher_pc = "poll"
    \* no iteration has happened
    /\ cur_poll = [polled |-> FALSE, ids |-> {}, gate_before |-> {}, gate |-> "None",
                   has_match |-> FALSE, engine |-> FALSE, result |-> "none",
                   printed |-> "", slept |-> FALSE]
    /\ prev_poll = cur_poll
    /\ overflow_checks = FALSE
    /\ PoolIdle /\ GridIdle /\ MultiIdle /\ GateIdle /\ FillIdle /\ LadderIdle /\ OverlayIdle /\ DecodeIdle /\ SettleIdle

\* one of the three requests fails: try_join!(..)? returns the error from
\* handle_matcher_command
PollFails ==
    /\ matcher_pc = "poll"
    /\ matcher_pc' = "returned"
    /\ UNCHANGED <<box_id_gate, cur_poll, prev_poll, notMatcher>>

\* the requests succeed: overlay, the two overlaid lists and the gate check
Poll ==
    /\ matcher_pc = "poll"
    /\ \E f \in Fetches :
          /\ cur_poll' = [polled |-> TRUE, ids |-> id_set(polled_ids(f)),
                          gate_before |-> box_id_gate,
                          gate |-> check_box_ids(box_id_gate, polled_ids(f)).res.tag,
                          has_match |-> has_match(f),
                          engine |-> FALSE, result |-> "none", printed |-> "",
                          slept |-> FALSE]
          /\ box_id_gate' = check_box_ids(box_id_gate, polled_ids(f)).current_ids
          /\ matcher_pc' = gate_branch(check_box_ids(box_id_gate, polled_ids(f)).res)
    /\ prev_poll' = cur_poll
    /\ UNCHANGED notMatcher

\* the gate returned Some: the loop over the token groups, which calls
\* match_orders if the group has a pool and prints its result. match_orders
\* returns Ok(Some(tx_id)), Ok(None), or an error of fill_orders, of building
\* the transaction or of submitting it
Match ==
    /\ matcher_pc = "match"
    /\ \/ /\ cur_poll.has_match
          /\ \E r \in {"OkSome", "OkNone", "Err"} :
                cur_poll' = [cur_poll EXCEPT !.engine = TRUE, !.result = r,
                                !.printed = CASE r = "OkSome" -> "Filled orders with tx"
                                              [] r = "Err" -> "Error filling orders"
                                              [] OTHER -> ""]
       \/ /\ ~cur_poll.has_match
          /\ UNCHANGED cur_poll
    /\ matcher_pc' = "poll"
    /\ UNCHANGED <<box_id_gate, prev_poll, notMatcher>>

\* the gate returned None: tokio::time::sleep(matcher_interval)
Sleep ==
    /\ matcher_pc = "sleep"
    /\ cur_poll' = [cur_poll EXCEPT !.slept = TRUE]
    /\ matcher_pc' = "poll"
    /\ UNCHANGED <<box_id_gate, prev_poll, notMatcher>>

MatcherNext == PollFails \/ Poll \/ Match \/ Sleep

SpecMatcher == MatcherInit /\ [][MatcherNext]_vars

(***************************************************************************)
(* TryFrom<&ErgoBox> for GridOrder and for MultiGridOrder                  *)
(***************************************************************************)
\* GridOrder::try_from(&ErgoBox). The box has its value, its tokens (<<>>
\* for None) and the registers R5 and R6; script says which contract wrote
\* the registers, and a register of the other contract's type does not
\* extract
GridOrder_try_from(b) ==
    IF b.script # "grid" THEN Err("InvalidRegisterValue")
    ELSE IF b.R5[1] < 0 \/ b.R5[2] < 0 \/ b.R6[2] < 0 THEN Err("TryFromIntError")
    ELSE IF ~IsOk(TokenAmount_try_from(b.R6[2])) THEN Err("TokenAmountError")
    ELSE LET order == [bid_value |-> b.R5[1], ask_value |-> b.R5[2],
                       token |-> Token(b.R6[1], b.R6[2]),
                       state |-> IF b.tokens = <<>> THEN "Buy" ELSE "Sell",
                       value |-> b.value]
         IN  IF order.state = "Buy"
             THEN IF b.value < MIN_BOX_VALUE + order.bid_value
                  THEN Err("BidValue") ELSE Ok(order)
             ELSE IF Len(b.tokens) # 1 THEN Err("TokenLength")
             ELSE IF b.tokens[1].token_id # order.token.token_id THEN Err("TokenId")
             ELSE IF b.tokens[1].amount # order.token.amount THEN Err("TokenAmount")
             ELSE Ok(order)

\* .sum::<u64>() of field over the entries i..Len(entries) that are in one
\* of the states
RECURSIVE sum_u64(_, _, _, _)
sum_u64(entries, i, states, field) ==
    IF i > Len(entries) THEN 0
    ELSE (IF entries[i].state \in states THEN entries[i][field] ELSE 0)
             + sum_u64(entries, i + 1, states, field)

\* MultiGridOrder::try_from(&ErgoBox): R5 is the list of entry tuples
\* (amount, state_bool, bid_value, ask_value), R6 the token id. The two sums
\* are u64 sums, which panic or wrap on overflow as the build says
MultiGridOrder_try_from(b, checks) ==
    IF b.script # "multi" THEN Err("InvalidRegisterValue")
    ELSE IF \E i \in DOMAIN b.R5 : b.R5[i][1] < 0 \/ b.R5[i][3] < 0 \/ b.R5[i][4] < 0
    THEN Err("TryFromIntError")
    ELSE IF \E i \in DOMAIN b.R5 : ~IsOk(TokenAmount_try_from(b.R5[i][1]))
    THEN Err("TokenAmountError")
    ELSE LET entries == [i \in DOMAIN b.R5 |->
                            GridOrderEntry(IF b.R5[i][2] THEN "Buy" ELSE "Sell",
                                           b.R5[i][1], b.R5[i][3], b.R5[i][4])]
             order == [entries |-> entries, value |-> b.value]
             bids == sum_u64(entries, 1, {"Buy", "Sell"}, "bid_value")
             expected_token_amount == sum_u64(entries, 1, {"Sell"}, "token_amount")
         IN  IF (bids + MIN_BOX_VALUE > U64_MAX \/ expected_token_amount > U64_MAX) /\ checks
             THEN Panic("arithmetic overflow")
             ELSE IF b.tokens = <<>> /\ expected_token_amount % (U64_MAX + 1) > 0
             THEN Err("TokenLength")
             ELSE IF b.tokens # <<>> /\ expected_token_amount % (U64_MAX + 1) = 0
             THEN Err("TokenLengthNonZero")
             ELSE IF b.tokens # <<>>
             THEN IF Len(b.tokens) # 1 THEN Err("TokenLength")
                  ELSE IF b.tokens[1].token_id # b.R6 THEN Err("TokenId")
                  ELSE IF b.tokens[1].amount # expected_token_amount % (U64_MAX + 1)
                  THEN Err("TokenAmount")
                  ELSE Ok(order)
             ELSE IF b.value < (bids + MIN_BOX_VALUE) % (U64_MAX + 1) THEN Err("BidValue")
             ELSE Ok(order)

(***************************************************************************)
(* SpecDecode: a box found by a scan is decoded                            *)
(***************************************************************************)
DecodeInit ==
    /\ ergo_box \in
          [script : {"grid"},
           value : {MIN_BOX_VALUE - 1, MIN_BOX_VALUE, MIN_BOX_VALUE + 4,
                    MIN_BOX_VALUE + 5, MIN_BOX_VALUE + 9},
           tokens : {<<>>, <<Token(ASSET_Y_ID, 2)>>, <<Token(ASSET_Y_ID, 3)>>,
                     <<Token(OTHER_ID, 2)>>,
                     <<Token(ASSET_Y_ID, 2), Token(OTHER_ID, 1)>>},
           R5 : {<<5, 10>>, <<0, 1>>, <<-1, 3>>},
           R6 : {<<ASSET_Y_ID, 2>>, <<ASSET_Y_ID, 0>>}]
          \cup
          [script : {"multi"},
           value : {MIN_BOX_VALUE - 1, MIN_BOX_VALUE, MIN_BOX_VALUE + 4,
                    MIN_BOX_VALUE + 5, MIN_BOX_VALUE + 9},
           tokens : {<<>>, <<Token(ASSET_Y_ID, 2)>>, <<Token(ASSET_Y_ID, 3)>>,
                     <<Token(OTHER_ID, 2)>>,
                     <<Token(ASSET_Y_ID, 2), Token(OTHER_ID, 1)>>},
           R5 : SeqsUpTo({<<2, TRUE, 5, 10>>, <<2, FALSE, 5, 10>>, <<1, TRUE, 4, 6>>,
                          <<1, FALSE, 4, 6>>, <<1, TRUE, -1, 6>>}, MaxEntries),
           R6 : {ASSET_Y_ID}]
    /\ decoded = [by |-> "none", res |-> Err("none")]
    /\ overflow_checks \in BOOLEAN
    /\ PoolIdle /\ GridIdle /\ MultiIdle /\ GateIdle /\ FillIdle /\ LadderIdle /\ OverlayIdle /\ MatcherIdle /\ SettleIdle

\* b.try_into() for TrackedBox<GridOrder> or for TrackedBox<MultiGridOrder>
TryFrom ==
    /\ decoded.by = "none"
    /\ \/ decoded' = [by |-> "GridOrder", res |-> GridOrder_try_from(ergo_box)]
       \/ decoded' = [by |-> "MultiGridOrder",
                      res |-> MultiGridOrder_try_from(ergo_box, overflow_checks)]
    /\ UNCHANGED <<ergo_box, notDecode>>

DecodeNext == TryFrom

SpecDecode == DecodeInit /\ [][DecodeNext]_vars

(***************************************************************************)
(* FillMultiGridOrders::fill_orders (boxes/liquidity_box.rs)               *)
(***************************************************************************)
Some(v) == [tag |-> "Some", val |-> v]
None == [tag |-> "None"]

\* i64::checked_add / checked_sub, given the exact sum or difference
i64_checked(v) == IF v >= -I64_MAX - 1 /\ v <= I64_MAX THEN Some(v) ELSE None

SurplusResult(matched_state, new_x, new_y, surplus) ==
    [matched_state |-> matched_state, new_x |-> new_x, new_y |-> new_y,
     surplus |-> surplus]

\* Some(SurplusResult), or None when the surplus left i64
checked_surplus(matched_state, new_x, new_y, surplus) ==
    IF surplus.tag = "None" THEN None
    ELSE Some(SurplusResult(matched_state, new_x, new_y, surplus.val))

\* calculate_surplus, arm Ordering::Greater, after the quote `output`
surplus_of_output(matched_state, new_x, new_y, output) ==
    IF output.tag = "Panic" THEN output
    ELSE IF ~IsOk(output) THEN None
    ELSE checked_surplus(matched_state, new_x, new_y,
                         i64_checked(new_x + as_i64(output.val.amount)))

\* mutant of surplus_of_input: a failed quote counts as an input of nothing
surplus_of_input_free(matched_state, new_x, new_y, input) ==
    IF input.tag = "Panic" THEN input
    ELSE IF ~IsOk(input) THEN Some(SurplusResult(matched_state, new_x, new_y, new_x))
    ELSE checked_surplus(matched_state, new_x, new_y,
                         i64_checked(new_x - as_i64(input.val.amount)))

\* calculate_surplus, arm Ordering::Less, after the quote `input`
surplus_of_input(matched_state, new_x, new_y, input) ==
    IF input.tag = "Panic" THEN input
    ELSE IF ~IsOk(input) THEN None
    ELSE checked_surplus(matched_state, new_x, new_y,
                         i64_checked(new_x - as_i64(input.val.amount)))

\* calculate_surplus, the match on new_y.cmp(&0)
surplus_at(liquidity_provider, matched_state, new_x, new_y) ==
    IF new_y > 0 THEN
        IF ~IsOk(TokenAmount_try_from(new_y)) THEN Panic("non-zero")
        ELSE surplus_of_output(matched_state, new_x, new_y,
                 output_amount(liquidity_provider,
                               Token(liquidity_provider.asset_y.token_id, new_y)))
    ELSE IF new_y < 0 THEN
        IF ~IsOk(TokenAmount_try_from(Abs(new_y))) THEN Panic("non-zero")
        ELSE surplus_of_input(matched_state, new_x, new_y,
                 input_amount(liquidity_provider,
                              Token(liquidity_provider.asset_y.token_id, Abs(new_y))))
    ELSE Some(SurplusResult(matched_state, new_x, new_y, new_x))

\* calculate_surplus, after the checked deltas (`?` on None)
surplus_of_deltas(liquidity_provider, matched_state, new_x, new_y) ==
    IF new_x.tag = "None" \/ new_y.tag = "None" THEN None
    ELSE surplus_at(liquidity_provider, matched_state, new_x.val, new_y.val)

\* calculate_surplus: Some(SurplusResult), None, or a panic
calculate_surplus(liquidity_provider, entry, cur_x, cur_y) ==
    IF entry.state = "Buy"
    THEN surplus_of_deltas(liquidity_provider, "Buy",
                           i64_checked(cur_x + as_i64(entry.bid_value)),
                           i64_checked(cur_y - as_i64(entry.token_amount)))
    ELSE surplus_of_deltas(liquidity_provider, "Sell",
                           i64_checked(cur_x - as_i64(entry.ask_value)),
                           i64_checked(cur_y + as_i64(entry.token_amount)))

\* enum OrderMatchingState
NotMatched(entries) == [tag |-> "NotMatched", entries |-> entries]
MatchedBid(entries) == [tag |-> "MatchedBid", entries |-> entries]
MatchedAsk(entries) == [tag |-> "MatchedAsk", entries |-> entries]

\* entry.and_then(|entry| calculate_surplus(..)) for the entry at index i
\* (0 for None)
surplus_of_entry(entries, i, liquidity_provider, cur_x, cur_y) ==
    IF i = 0 THEN None
    ELSE calculate_surplus(liquidity_provider, entries[i], cur_x, cur_y)

\* state_surplus, the match on (bid_surplus, ask_surplus)
better_surplus(bid, ask) ==
    IF bid.tag = "Panic" THEN bid
    ELSE IF ask.tag = "Panic" THEN ask
    ELSE IF bid.tag = "None" THEN ask
    ELSE IF ask.tag = "None" THEN bid
    ELSE IF bid.val.surplus > ask.val.surplus THEN bid
    ELSE ask

\* mutant of state_surplus: a matched order still offers both sides
state_surplus_both_sides(self, liquidity_provider, cur_x, cur_y) ==
    better_surplus(
        surplus_of_entry(self.entries, bid_entry(self.entries),
                         liquidity_provider, cur_x, cur_y),
        surplus_of_entry(self.entries, ask_entry(self.entries),
                         liquidity_provider, cur_x, cur_y))

\* OrderMatchingState::state_surplus
state_surplus(self, liquidity_provider, cur_x, cur_y) ==
    IF self.tag = "NotMatched" THEN
        better_surplus(
            surplus_of_entry(self.entries, bid_entry(self.entries),
                             liquidity_provider, cur_x, cur_y),
            surplus_of_entry(self.entries, ask_entry(self.entries),
                             liquidity_provider, cur_x, cur_y))
    ELSE IF self.tag = "MatchedBid"
    THEN surplus_of_entry(self.entries, bid_entry(self.entries),
                          liquidity_provider, cur_x, cur_y)
    ELSE surplus_of_entry(self.entries, ask_entry(self.entries),
                          liquidity_provider, cur_x, cur_y)

\* mutant of flip_entry: the entry keeps its state
flip_entry_kept(entries, i, state) ==
    IF i = 0 THEN Panic("unwrap on None") ELSE Ok(entries)

\* the entries with the entry at index i put in `state`; a panic for index 0
\* (unwrap on None)
flip_entry(entries, i, state) ==
    IF i = 0 THEN Panic("unwrap on None")
    ELSE Ok([entries EXCEPT ![i].state = state])

\* Ok(variant(entries)) of a flip_entry result
matched_as(variant, flipped) ==
    IF ~IsOk(flipped) THEN flipped ELSE Ok([tag |-> variant, entries |-> flipped.val])

\* OrderMatchingState::fill_bid / fill_ask: the new state, or a panic
fill_bid(self) ==
    IF self.tag = "MatchedAsk" THEN Panic("Cannot fill bid when ask is already filled")
    ELSE matched_as("MatchedBid", flip_entry(self.entries, bid_entry(self.entries), "Sell"))

fill_ask(self) ==
    IF self.tag = "MatchedBid" THEN Panic("Cannot fill ask when bid is already filled")
    ELSE matched_as("MatchedAsk", flip_entry(self.entries, ask_entry(self.entries), "Buy"))

\* mutant of passes_overflow_filter: nothing is filtered
passes_always(self, surplus_result) == TRUE

\* the filter of the loop: neither reserve plus its delta leaves i64
passes_overflow_filter(self, surplus_result) ==
    /\ i64_checked(as_i64(self.asset_y.amount) + surplus_result.new_y).tag = "Some"
    /\ i64_checked(as_i64(self.asset_x.amount) + surplus_result.new_x).tag = "Some"

\* per order, what state_surplus returns in this iteration
surplus_results(self, states, cur_x, cur_y) ==
    [i \in DOMAIN states |-> state_surplus(states[i], self, cur_x, cur_y)]

\* index of the candidate max_by_key picks (the last one of equal surplus),
\* 0 when no candidate is left after the filters
best_order(self, results) ==
    LET kept == {i \in DOMAIN results :
                    /\ results[i].tag = "Some"
                    /\ passes_overflow_filter(self, results[i].val)}
    IN  IF kept = {} THEN 0
        ELSE CHOOSE i \in kept : \A j \in kept :
                 IF j > i THEN results[j].val.surplus < results[i].val.surplus
                 ELSE results[j].val.surplus <= results[i].val.surplus

\* mutant of exceeds: every candidate is committed
exceeds_always(surplus_result, current) == TRUE

\* the guard of the commit arm: surplus_result.surplus > current_surplus
exceeds(surplus_result, current) == surplus_result.surplus > current

\* `filled` (a with_entries outcome for order i) put before the pairs `rest`:
\* an error drops the pair (`.ok()`), a panic is a panic of fill_orders
with_filled(i, filled, rest) ==
    IF filled.tag = "Panic" THEN filled
    ELSE IF ~IsOk(rest) THEN rest
    ELSE IF ~IsOk(filled) THEN rest
    ELSE Ok(<<[original |-> i, filled |-> filled.val]>> \o rest.val)

\* the filled orders built after the loop: per matched order the pair
\* (index of the original, with_entries result)
RECURSIVE filled_orders(_, _, _, _)
filled_orders(orders, states, i, checks) ==
    IF i > Len(states) THEN Ok(<<>>)
    ELSE IF states[i].tag = "NotMatched" THEN filled_orders(orders, states, i + 1, checks)
    ELSE with_filled(i, with_entries(orders[i], states[i].entries, checks),
                     filled_orders(orders, states, i + 1, checks))

\* Ok((swapped, filled_orders)) after `with_swap(..)?`
swapped_with(swapped, filled) ==
    IF ~IsOk(swapped) THEN swapped ELSE Ok([pool |-> swapped.val, filled |-> filled])

\* `self.with_swap(&input)?` after `self.input_amount(&output)?`
swap_of_input(self, input, filled) ==
    IF ~IsOk(input) THEN input ELSE swapped_with(with_swap(self, input.val), filled)

\* mutant of final_swap: a zero delta is swapped like a positive one
final_swap_no_equal(self, y_diff, filled) ==
    IF ~IsOk(TokenAmount_try_from(Abs(y_diff))) THEN Panic("non-zero")
    ELSE swapped_with(with_swap(self, Token(self.asset_y.token_id, Abs(y_diff))), filled)

\* mutant of final_swap: a negative delta is swapped like a positive one,
\* as an input of the traded asset
final_swap_same_side(self, y_diff, filled) ==
    IF y_diff = 0 THEN Ok([pool |-> self, filled |-> filled])
    ELSE IF ~IsOk(TokenAmount_try_from(Abs(y_diff))) THEN Panic("non-zero")
    ELSE swapped_with(with_swap(self, Token(self.asset_y.token_id, Abs(y_diff))), filled)

\* the match on liquidity_y_diff that ends fill_orders
final_swap(self, y_diff, filled) ==
    IF y_diff > 0 THEN
        IF ~IsOk(TokenAmount_try_from(y_diff)) THEN Panic("non-zero")
        ELSE swapped_with(with_swap(self, Token(self.asset_y.token_id, y_diff)), filled)
    ELSE IF y_diff < 0 THEN
        IF ~IsOk(TokenAmount_try_from(Abs(y_diff))) THEN Panic("non-zero")
        ELSE swap_of_input(self,
                           input_amount(self, Token(self.asset_y.token_id, Abs(y_diff))),
                           filled)
    ELSE Ok([pool |-> self, filled |-> filled])

(***************************************************************************)
(* FillGridOrders::fill_orders, the single-order engine.  grid_order.rs    *)
(* holds only the trait declaration; the algorithm is the one of section   *)
(* 4.2 of the specification.                                               *)
(***************************************************************************)
\* the quote for filling `order` on top of the cumulative totals: the totals
\* after the fill and the surplus of the order.  A Buy order pays bid_value
\* for tokens the pool emits, a Sell order is paid ask_value for tokens the
\* pool takes in.  None when the pool gives no quote.
single_quote(self, order, total_in, total_out) ==
    LET y_id == self.asset_y.token_id
    IN  IF order.state = "Buy" THEN
            LET amount == TokenAmount_try_from(total_out + order.token.amount)
            IN  IF ~IsOk(amount) THEN None
                ELSE
                LET input == input_amount(self, Token(y_id, amount.val))
                IN  IF input.tag = "Panic" THEN input
                    ELSE IF ~IsOk(input) THEN None
                    ELSE Some([total_input |-> input.val.amount,
                               total_output |-> amount.val,
                               surplus |-> order.bid_value
                                               - (input.val.amount - total_in)])
        ELSE
            LET amount == TokenAmount_try_from(total_in + order.token.amount)
            IN  IF ~IsOk(amount) THEN None
                ELSE
                LET output == output_amount(self, Token(y_id, amount.val))
                IN  IF output.tag = "Panic" THEN output
                    ELSE IF ~IsOk(output) THEN None
                    ELSE Some([total_input |-> amount.val,
                               total_output |-> output.val.amount,
                               surplus |-> (output.val.amount - total_out)
                                               - order.ask_value])

NotFilled == [tag |-> "NotFilled"]
Filled(order) == [tag |-> "Filled", order |-> order]

\* per order still unfilled, its quote in this iteration
single_quotes(self, orders, states, total_in, total_out) ==
    [i \in DOMAIN orders |->
        IF states[i].tag = "Filled" THEN None
        ELSE single_quote(self, orders[i], total_in, total_out)]

\* the candidates of largest surplus among those with surplus > 0
single_best(quotes) ==
    LET kept == {i \in DOMAIN quotes : quotes[i].tag = "Some" /\ quotes[i].val.surplus > 0}
    IN  {i \in kept : \A j \in kept : quotes[j].val.surplus <= quotes[i].val.surplus}

\* the chosen orders with their filled form, from index i on
RECURSIVE single_filled(_, _)
single_filled(states, i) ==
    IF i > Len(states) THEN <<>>
    ELSE (IF states[i].tag = "Filled"
          THEN <<[original |-> i, filled |-> states[i].order]>> ELSE <<>>)
             \o single_filled(states, i + 1)

\* the one net swap after the loop: the cumulative input, in the numeraire
\* when Buy orders were filled and in the traded asset when Sell orders were
single_swap(self, state, total_in, filled) ==
    IF total_in = 0 THEN Ok([pool |-> self, filled |-> filled])
    ELSE LET id == IF state = "Buy" THEN self.asset_x.token_id
                   ELSE self.asset_y.token_id
             swapped == with_swap(self, Token(id, total_in))
         IN  IF ~IsOk(swapped) THEN swapped
             ELSE Ok([pool |-> swapped.val, filled |-> filled])

(***************************************************************************)
(* SpecFill: one fill_orders call of either engine, iteration by iteration *)
(***************************************************************************)
\* the third pool prices the traded asset below one unit of the numeraire
FillPools ==
    {SpectrumPool(100, 10, 1, 1), SpectrumPool(100, 8, 1, 2), SpectrumPool(40, 100, 1, 1)}

\* (token_amount, bid_value, ask_value) of the generated entries and orders,
\* against a pool price near 10: a bid above and an ask below the price, an
\* amount that empties a reserve of 8 (and with the first, one of 10), an
\* amount near i64::MAX, two bids that are both worth filling one after
\* the other, and an amount above a reserve of 10 that comes within it once
\* an ask of 2 has been filled
FillShapes ==
    {<<2, 30, 40>>, <<2, 5, 10>>, <<8, 500, 1>>, <<I64_MAX - 1, 3, 3>>,
     <<1, 20, 25>>, <<1, 15, 25>>, <<11, 1000, 1>>}

FillEntryDomain ==
    {GridOrderEntry(st, sh[1], sh[2], sh[3]) : st \in {"Buy", "Sell"}, sh \in FillShapes}

\* flat cut into consecutive pieces that end at the positions in cuts and
\* at the end of flat
SplitAt(flat, cuts) ==
    LET ends == cuts \cup {Len(flat)}
        End(k) == CHOOSE e \in ends : Cardinality({x \in ends : x <= e}) = k
        Start(k) == IF k = 1 THEN 1 ELSE End(k - 1) + 1
    IN  [k \in 1..Cardinality(ends) |-> SubSeq(flat, Start(k), End(k))]

\* the lists of entry ladders with at most MaxEntries entries in all
LadderLists ==
    {<<>>} \cup UNION {{SplitAt(flat, cuts) : cuts \in SUBSET (1..(Len(flat) - 1))} :
                          flat \in SeqsUpTo(FillEntryDomain, MaxEntries)}

\* the lists of MultiGridOrders made by MultiGridOrder::new
MultiOrderLists ==
    {[i \in DOMAIN ladders |-> MultiGridOrder_new(ladders[i]).val] :
        ladders \in {l \in LadderLists : \A i \in DOMAIN l : IsOk(MultiGridOrder_new(l[i]))}}

\* the lists of GridOrders in one state made by GridOrder::new
SingleOrderLists(checks) ==
    {<<>>} \cup UNION {SeqsUpTo({GridOrder_new(sh[2], sh[3], Token(ASSET_Y_ID, sh[1]),
                                                st, checks).val : sh \in FillShapes},
                                 MaxEntries) : st \in {"Buy", "Sell"}}

Running == [tag |-> "Running"]

FillInit ==
    /\ overflow_checks \in BOOLEAN
    /\ fill_self \in FillPools
    /\ \/ /\ engine = "multi"
          \* orders made by MultiGridOrder::new, or one order decoded from a box
          \* of value MIN_BOX_VALUE that holds 2 tokens for its Sell entry
          /\ grid_orders \in MultiOrderLists \cup
                {<<MultiGridOrder_try_from(
                       [script |-> "multi", value |-> MIN_BOX_VALUE,
                        tokens |-> <<Token(ASSET_Y_ID, 2)>>,
                        R5 |-> <<<<1, TRUE, MIN_BOX_VALUE + 5, MIN_BOX_VALUE + 9>>,
                                 <<2, FALSE, 30, 40>>>>,
                        R6 |-> ASSET_Y_ID], overflow_checks).val>>}
          /\ matched_states = [i \in DOMAIN grid_orders |-> NotMatched(grid_orders[i].entries)]
       \/ /\ engine = "single"
          \* orders of small bids, or a Buy order that bids far above the pool
          \* price, alone or before an order of the small ones
          /\ grid_orders \in SingleOrderLists(overflow_checks) \cup
                {<<GridOrder_new(MAX_FEE + MIN_BOX_VALUE, MAX_FEE + MIN_BOX_VALUE + 5,
                                 Token(ASSET_Y_ID, 1), "Buy", overflow_checks).val>>
                    \o rest : rest \in {<<>>, <<GridOrder_new(20, 25, Token(ASSET_Y_ID, 1),
                                                              "Buy", overflow_checks).val>>}}
          /\ matched_states = [i \in DOMAIN grid_orders |-> NotFilled]
    /\ liquidity_x_diff = 0 /\ liquidity_y_diff = 0 /\ current_surplus = 0
    /\ total_input_amount = 0 /\ total_output_amount = 0
    /\ fill_pc = "loop"
    /\ fill_res = Running
    /\ skipped = {}
    /\ fills = 0
    /\ PoolIdle /\ GridIdle /\ MultiIdle /\ GateIdle /\ LadderIdle /\ OverlayIdle /\ MatcherIdle /\ DecodeIdle /\ SettleIdle

\* first panic among the results of an iteration
first_panic(results) ==
    results[CHOOSE i \in DOMAIN results :
                /\ results[i].tag = "Panic"
                /\ \A j \in DOMAIN results : results[j].tag = "Panic" => i <= j]

\* state.fill_bid() / state.fill_ask() by surplus_result.matched_state
fill_state(state, matched_state) ==
    IF matched_state = "Buy" THEN fill_bid(state) ELSE fill_ask(state)

\* the matching state still has an entry on a side it may use
has_candidate_entry(state) ==
    \/ state.tag # "MatchedAsk" /\ bid_entry(state.entries) # 0
    \/ state.tag # "MatchedBid" /\ ask_entry(state.entries) # 0

\* the orders that filter_map leaves out of this iteration because
\* calculate_surplus gave None for the entries they offer
failed_candidates(states, results) ==
    {i \in DOMAIN states : results[i].tag = "None" /\ has_candidate_entry(states[i])}

\* one iteration of the loop of the multi-entry engine
MultiIterate ==
    /\ engine = "multi" /\ fill_pc = "loop"
    /\ \E results \in {surplus_results(fill_self, matched_states,
                                       liquidity_x_diff, liquidity_y_diff)} :
       \E best \in {best_order(fill_self, results)} :
          IF \E i \in DOMAIN results : results[i].tag = "Panic"
          THEN /\ fill_res' = first_panic(results)
               /\ fill_pc' = "done"
               /\ UNCHANGED <<matched_states, liquidity_x_diff, liquidity_y_diff,
                              current_surplus, skipped, fills>>
          ELSE IF best = 0 \/ ~exceeds(results[best].val, current_surplus)
          THEN /\ fill_pc' = "finish"
               /\ skipped' = skipped \cup failed_candidates(matched_states, results)
               /\ UNCHANGED <<matched_states, liquidity_x_diff, liquidity_y_diff,
                              current_surplus, fill_res, fills>>
          ELSE \E state \in {fill_state(matched_states[best],
                                        results[best].val.matched_state)} :
                  /\ skipped' = skipped \cup failed_candidates(matched_states, results)
                  /\ liquidity_x_diff' = results[best].val.new_x
                  /\ liquidity_y_diff' = results[best].val.new_y
                  /\ current_surplus' = results[best].val.surplus
                  /\ fills' = fills + 1
                  /\ IF IsOk(state)
                     THEN /\ matched_states' = [matched_states EXCEPT ![best] = state.val]
                          /\ UNCHANGED <<fill_pc, fill_res>>
                     ELSE /\ fill_res' = state
                          /\ fill_pc' = "done"
                          /\ UNCHANGED matched_states
    /\ UNCHANGED <<engine, fill_self, grid_orders, total_input_amount,
                   total_output_amount, overflow_checks, notFill>>

\* the code after the loop of the multi-entry engine
MultiFinish ==
    /\ engine = "multi" /\ fill_pc = "finish"
    /\ \E filled \in {filled_orders(grid_orders, matched_states, 1, overflow_checks)} :
          fill_res' = IF ~IsOk(filled) THEN filled
                      ELSE final_swap(fill_self, liquidity_y_diff, filled.val)
    /\ fill_pc' = "done"
    /\ UNCHANGED <<engine, fill_self, grid_orders, matched_states, liquidity_x_diff,
                   liquidity_y_diff, current_surplus, total_input_amount,
                   total_output_amount, skipped, fills, overflow_checks, notFill>>

\* one iteration of the single-order engine (steps 2 to 4 of section 4.2);
\* current_surplus is the surplus of all fills chosen so far
SingleIterate ==
    /\ engine = "single" /\ fill_pc = "loop"
    /\ LET quotes == single_quotes(fill_self, grid_orders, matched_states,
                                   total_input_amount, total_output_amount)
           panics == {i \in DOMAIN quotes : quotes[i].tag = "Panic"}
       IN  IF panics # {}
           THEN /\ fill_res' = quotes[CHOOSE i \in panics : \A j \in panics : i <= j]
                /\ fill_pc' = "done"
                /\ UNCHANGED <<matched_states, total_input_amount, total_output_amount,
                               current_surplus, fills>>
           ELSE IF single_best(quotes) = {}
           THEN /\ fill_pc' = "finish"
                /\ UNCHANGED <<matched_states, total_input_amount, total_output_amount,
                               current_surplus, fill_res, fills>>
           ELSE \E i \in single_best(quotes) :
                   LET filled == into_filled(grid_orders[i], overflow_checks)
                   IN  IF IsOk(filled)
                       THEN /\ matched_states' =
                                   [matched_states EXCEPT ![i] = Filled(filled.val)]
                            /\ total_input_amount' = quotes[i].val.total_input
                            /\ total_output_amount' = quotes[i].val.total_output
                            /\ current_surplus' = current_surplus + quotes[i].val.surplus
                            /\ fills' = fills + 1
                            /\ UNCHANGED <<fill_pc, fill_res>>
                       ELSE /\ fill_res' = filled
                            /\ fill_pc' = "done"
                            /\ UNCHANGED <<matched_states, total_input_amount,
                                           total_output_amount, current_surplus, fills>>
    /\ UNCHANGED <<engine, fill_self, grid_orders, liquidity_x_diff, liquidity_y_diff,
                   skipped, overflow_checks, notFill>>

\* the net swap of the single-order engine (step 5 of section 4.2)
SingleFinish ==
    /\ engine = "single" /\ fill_pc = "finish"
    /\ fill_res' = single_swap(fill_self,
                               IF grid_orders = <<>> THEN "Buy" ELSE grid_orders[1].state,
                               total_input_amount, single_filled(matched_states, 1))
    /\ fill_pc' = "done"
    /\ UNCHANGED <<engine, fill_self, grid_orders, matched_states, liquidity_x_diff,
                   liquidity_y_diff, current_surplus, total_input_amount,
                   total_output_amount, skipped, fills, overflow_checks, notFill>>

\* sum of the box values of the pairs from index k on: the original order's
\* when original is TRUE, the filled order's otherwise
RECURSIVE value_sum(_, _, _, _)
value_sum(orders, filled, original, k) ==
    IF k > Len(filled) THEN 0
    ELSE (IF original THEN orders[filled[k].original].value ELSE filled[k].filled.value)
            + value_sum(orders, filled, original, k + 1)

NotSubmitted(tag) == [tag |-> tag, submitted |-> FALSE, inputs |-> <<>>, outputs |-> <<>>]

\* mutant of match_orders: the fee is not taken out of the change
match_orders_change_keeps_fee(pool_box, orders, res, submit_ok, checks) ==
    IF res.tag # "Ok" THEN NotSubmitted(res.tag)
    ELSE
    LET filled == res.val.filled
        input_value == i64_wrap(value_sum(orders, filled, TRUE, 1) + pool_box.asset_x.amount, checks)
        output_value == i64_wrap(value_sum(orders, filled, FALSE, 1)
                                     + res.val.pool.asset_x.amount, checks)
    IN  IF ~IsOk(input_value) THEN NotSubmitted("Panic")
        ELSE IF ~IsOk(output_value) THEN NotSubmitted("Panic")
        ELSE
        LET surplus == i64_sub(input_value.val, output_value.val, checks)
        IN  IF ~IsOk(surplus) THEN NotSubmitted("Panic")
            ELSE IF filled = <<>> \/ ~(surplus.val > MAX_FEE) THEN NotSubmitted("OkNone")
            ELSE IF ~IsOk(BoxValue_try_from(res.val.pool.asset_x.amount))
            THEN NotSubmitted("Err")
            ELSE IF \E k \in DOMAIN filled : ~IsOk(into_box_candidate(filled[k].filled))
            THEN NotSubmitted("Panic")
            ELSE IF ~IsOk(BoxValue_try_from(surplus.val))
            THEN NotSubmitted("Err")
            ELSE [tag |-> IF submit_ok THEN "OkSome" ELSE "Err",
                  submitted |-> TRUE,
                  inputs |-> <<pool_box.asset_x.amount>>
                                \o [k \in DOMAIN filled |-> orders[filled[k].original].value],
                  outputs |-> <<res.val.pool.asset_x.amount>>
                                \o [k \in DOMAIN filled |-> into_box_candidate(filled[k].filled).val.value]
                                \o <<surplus.val, MAX_FEE>>]

\* match_orders on the outcome res of pool.value.fill_orders(orders): the result
\* and, when a transaction is built, the values of its inputs (pool box, then
\* the original order boxes) and outputs (new pool, filled orders, change,
\* fee); submit_ok is whether the node accepts the transaction
match_orders(pool_box, orders, res, submit_ok, checks) ==
    IF res.tag # "Ok" THEN NotSubmitted(res.tag)
    ELSE
    LET filled == res.val.filled
        input_value == i64_wrap(value_sum(orders, filled, TRUE, 1) + pool_box.asset_x.amount, checks)
        output_value == i64_wrap(value_sum(orders, filled, FALSE, 1)
                                     + res.val.pool.asset_x.amount, checks)
    IN  IF ~IsOk(input_value) THEN NotSubmitted("Panic")
        ELSE IF ~IsOk(output_value) THEN NotSubmitted("Panic")
        ELSE
        LET surplus == i64_sub(input_value.val, output_value.val, checks)
        IN  IF ~IsOk(surplus) THEN NotSubmitted("Panic")
            ELSE IF filled = <<>> \/ ~(surplus.val > MAX_FEE) THEN NotSubmitted("OkNone")
            ELSE IF ~IsOk(BoxValue_try_from(res.val.pool.asset_x.amount))
            THEN NotSubmitted("Err")
            ELSE IF \E k \in DOMAIN filled : ~IsOk(into_box_candidate(filled[k].filled))
            THEN NotSubmitted("Panic")
            ELSE IF ~IsOk(BoxValue_try_from(surplus.val - MAX_FEE))
            THEN NotSubmitted("Err")
            ELSE [tag |-> IF submit_ok THEN "OkSome" ELSE "Err",
                  submitted |-> TRUE,
                  inputs |-> <<pool_box.asset_x.amount>>
                                \o [k \in DOMAIN filled |-> orders[filled[k].original].value],
                  outputs |-> <<res.val.pool.asset_x.amount>>
                                \o [k \in DOMAIN filled |-> into_box_candidate(filled[k].filled).val.value]
                                \o <<surplus.val - MAX_FEE, MAX_FEE>>]

\* match_orders once the single-order engine has returned
MatchOrders ==
    /\ engine = "single" /\ fill_pc = "done"
    /\ settlement.tag = "Idle"
    /\ \E submit_ok \in BOOLEAN :
          settlement' = match_orders(fill_self, grid_orders, fill_res, submit_ok,
                                     overflow_checks)
    /\ UNCHANGED notSettle

FillNext == MultiIterate \/ MultiFinish \/ SingleIterate \/ SingleFinish \/ MatchOrders

SpecFill == FillInit /\ [][FillNext]_vars

(***************************************************************************)
(* Claims about the pool (checked under SpecPool)                          *)
(***************************************************************************)
\* amm_factor(p) <= amm_factor(q)
FactorLeq(p, q) ==
    FracLeq(p.asset_x.amount, q.asset_x.amount, q.asset_y.amount, p.asset_y.amount)

ReserveOf(p, id) == IF id = p.asset_x.token_id THEN p.asset_x ELSE p.asset_y
OppositeOf(p, id) == IF id = p.asset_x.token_id THEN p.asset_y ELSE p.asset_x

\* numerator and divisor of the swap quotient for input t against pool p
QuoteNum(p, t) == OppositeOf(p, t.token_id).amount * t.amount * p.fee_num
QuoteDen(p, t) == ReserveOf(p, t.token_id).amount * p.fee_denom + t.amount * p.fee_num

\* q = floor(num / den), stated without division
IsFloor(q, num, den) == q * den <= num /\ num < (q + 1) * den

\* C1: a successful with_swap never lowers asset_x * asset_y, so the
\* product is non-decreasing along every sequence of calls.
C1_ProductNonDecreasing == [][FactorLeq(pool, pool')]_vars

\* C1 witness: a second successful swap in a row has been applied
C1_Witness ==
    /\ call.op = "with_swap" /\ IsOk(call.res) /\ pool = call.res.val
    /\ steps = 2
    /\ ~FactorLeq(pool, call.before)

\* C2 (as stated): output_amount always returns the floored quotient in the
\* opposite asset, and with_swap always returns the pool moved by it; the
\* swap_output example gives 332 and reserves (1500, 668).
C2_OutputIsFloorAlways ==
    /\ (call.op = "output_amount" /\ can_swap(call.before, call.arg.token_id)) =>
          /\ IsOk(call.res)
          /\ call.res.val.token_id = OppositeOf(call.before, call.arg.token_id).token_id
          /\ IsFloor(call.res.val.amount, QuoteNum(call.before, call.arg),
                     QuoteDen(call.before, call.arg))
    /\ (call.op = "output_amount" /\ call.before = ExamplePool /\ call.arg = ExampleInput) =>
          call.res = Ok(Token(ASSET_Y_ID, 332))
    /\ (call.op = "with_swap" /\ call.before = ExamplePool /\ call.arg = ExampleInput) =>
          call.res = Ok(SpectrumPool(1500, 668, 998, 1000))

\* C2 (amended): output_amount returns Ok exactly when the floored quotient
\* is at least 1, and then returns that quotient in the opposite asset; a
\* quotient of 0 is an error.  A successful with_swap returns the pool with
\* the input reserve raised by the input and the other lowered by that
\* quotient, the fee unchanged, and it succeeds exactly when output_amount
\* does and the raised reserve stays within i64::MAX.  The example holds.
C2_OutputIsFloorWhenPositive ==
    LET p == call.before
        t == call.arg
        num == QuoteNum(p, t)
        den == QuoteDen(p, t)
        from == ReserveOf(p, t.token_id)
        to == OppositeOf(p, t.token_id)
    IN
    /\ (call.op = "output_amount" /\ can_swap(p, t.token_id)) =>
          /\ IsOk(call.res) <=> num >= den
          /\ ~IsOk(call.res) => call.res.tag = "Err"
          /\ IsOk(call.res) =>
                /\ call.res.val.token_id = to.token_id
                /\ IsFloor(call.res.val.amount, num, den)
    /\ (call.op = "with_swap" /\ can_swap(p, t.token_id)) =>
          /\ IsOk(call.res) <=> (num >= den /\ from.amount + t.amount <= I64_MAX)
          /\ ~IsOk(call.res) => call.res.tag = "Err"
          /\ IsOk(call.res) =>
                LET q == call.res.val
                IN  /\ ReserveOf(q, t.token_id) = Token(from.token_id, from.amount + t.amount)
                    /\ OppositeOf(q, t.token_id).token_id = to.token_id
                    /\ IsFloor(to.amount - OppositeOf(q, t.token_id).amount, num, den)
                    /\ q.fee_num = p.fee_num /\ q.fee_denom = p.fee_denom
    /\ (call.op = "output_amount" /\ p = ExamplePool /\ t = ExampleInput) =>
          call.res = Ok(Token(ASSET_Y_ID, 332))
    /\ (call.op = "with_swap" /\ p = ExamplePool /\ t = ExampleInput) =>
          call.res = Ok(SpectrumPool(1500, 668, 998, 1000))

\* C2 witness: the example swap has been applied
C2_Witness ==
    /\ call.op = "with_swap" /\ call.before = ExamplePool /\ call.arg = ExampleInput
    /\ IsOk(call.res) /\ pool = call.res.val

\* C3 (as stated): input_amount returns an error value whenever the
\* requested output is at least the pool's reserve of that asset.
C3_InputAmountErrAtOrAboveReserve ==
    (/\ call.op = "input_amount"
     /\ can_swap(call.before, call.arg.token_id)
     /\ call.arg.amount >= ReserveOf(call.before, call.arg.token_id).amount)
        => call.res.tag = "Err"

\* C4: when input_amount(o) succeeds for 1 <= o < reserve, paying the quoted
\* input buys at least o of the requested asset.
C4_QuoteBuysRequested ==
    (/\ call.op = "input_amount"
     /\ IsOk(call.res)
     /\ call.arg.amount >= 1
     /\ call.arg.amount < ReserveOf(call.before, call.arg.token_id).amount)
        => LET paid == output_amount(call.before, call.res.val)
           IN  /\ IsOk(paid)
               /\ paid.val.token_id = call.arg.token_id
               /\ paid.val.amount >= call.arg.amount

\* C4 witness: a quote for less than the reserve succeeded, and the quoted
\* input buys strictly more than was asked (the two are not exact inverses)
C4_Witness ==
    /\ call.op = "input_amount" /\ IsOk(call.res)
    /\ call.arg.amount < ReserveOf(call.before, call.arg.token_id).amount
    /\ output_amount(call.before, call.res.val).val.amount > call.arg.amount

(***************************************************************************)
(* Claims about GridOrder (checked under SpecGrid)                         *)
(***************************************************************************)
\* the order two successful fills ago
TwoFillsAgo == grid_hist[Len(grid_hist) - 1]

\* number of sell fills (Sell -> Buy) applied so far
AskFills ==
    Cardinality({i \in 1..Len(grid_hist) :
                    grid_hist[i].state = "Sell" /\ (i < Len(grid_hist) \/ IsOk(grid_res))})

MultiAfter(j) == IF j < Len(multi_hist) THEN multi_hist[j + 1] ELSE multi

\* number of with_entries calls that turned entry i from Sell to Buy
SellFills(i) ==
    Cardinality({j \in 1..Len(multi_hist) :
                    /\ multi_hist[j].entries[i].state = "Sell"
                    /\ MultiAfter(j).entries[i].state = "Buy"})

\* sum over the entries from i on of (ask_value - bid_value) * SellFills
RECURSIVE CollectedFrom(_)
CollectedFrom(i) ==
    IF i > Len(multi.entries) THEN 0
    ELSE SellFills(i) * (as_i64(multi.entries[i].ask_value)
                             - as_i64(multi.entries[i].bid_value))
             + CollectedFrom(i + 1)

\* sum of bid_value, read as i64, over the Buy entries from i on
RECURSIVE BuyCollateralFrom(_)
BuyCollateralFrom(i) ==
    IF i > Len(multi.entries) THEN 0
    ELSE (IF multi.entries[i].state = "Buy" THEN as_i64(multi.entries[i].bid_value) ELSE 0)
             + BuyCollateralFrom(i + 1)

\* C7 (as stated): the value of an order made by new and changed by
\* successful with_entries calls is MIN_BOX_VALUE plus the bid_value of its
\* Buy entries.
C7_ValueIsBuyCollateral ==
    IsOk(multi_res) => multi.value = MIN_BOX_VALUE + buy_bids(multi.entries, 1)

\* C7 (amended): the value is MIN_BOX_VALUE plus the bid_value of the Buy
\* entries plus, for every entry, (ask_value - bid_value) times the number
\* of with_entries calls that turned it from Sell to Buy (bid_value and
\* ask_value read as i64): exactly in a build with overflow checks, and up
\* to a multiple of 2^64 in a build whose i64 arithmetic wraps.  The part
\* above the Buy collateral is what profit() reports when it does not
\* overflow.
C7_ValueIsCollateralPlusCollected ==
    IsOk(multi_res) =>
        LET expected == MIN_BOX_VALUE + BuyCollateralFrom(1) + CollectedFrom(1)
        IN  /\ (multi.value - expected) % (U64_MAX + 1) = 0
            /\ overflow_checks => multi.value = expected
            /\ (multi_profit.of = <<multi>> /\ IsOk(multi_profit.res) /\ overflow_checks) =>
                  multi.value = MIN_BOX_VALUE + buy_bids(multi.entries, 1)
                                    + multi_profit.res.val

\* C7 witness: an order whose entry was sold and bought back with a spread
C7_Witness ==
    /\ IsOk(multi_res) /\ Len(multi_hist) = 2
    /\ \E i \in DOMAIN multi.entries :
          /\ SellFills(i) = 1
          /\ multi.entries[i].ask_value > multi.entries[i].bid_value
          /\ multi.entries[i].ask_value <= I64_MAX
          /\ multi_hist[1].entries[i].state = "Buy"
    /\ multi_profit.of = <<multi>> /\ IsOk(multi_profit.res)

(***************************************************************************)
(* Claims about BoxIdGate (checked under SpecGate)                         *)
(***************************************************************************)
GateLast == gate_hist[Len(gate_hist)]

\* the id set given to the call before the last one, or the empty set
GatePrevious == IF Len(gate_hist) >= 2 THEN gate_hist[Len(gate_hist) - 1].ids ELSE {}

\* the id set of the most recent call before the last one that returned
\* Some, or the empty set
GateLastSome ==
    LET somes == {j \in 1..(Len(gate_hist) - 1) : gate_hist[j].res.tag = "Some"}
    IN  IF somes = {} THEN {}
        ELSE gate_hist[CHOOSE j \in somes : \A k \in somes : k <= j].ids

\* C8 (as stated): a call with the id set of the preceding call returns
\* None, and a call returns Some exactly when its id set has an id that is
\* not in the id set of the preceding call (the empty set for the first).
C8_SomeIffNewSincePrecedingCall ==
    Len(gate_hist) >= 1 =>
        /\ (Len(gate_hist) >= 2 /\ GateLast.ids = GatePrevious) => GateLast.res.tag = "None"
        /\ GateLast.res.tag = "Some" <=> GateLast.ids \ GatePrevious # {}

\* C8 (amended): a call with the id set of the preceding call returns None,
\* and a call returns Some exactly when its id set has an id that is not in
\* the gate's stored set, which is the id set of the most recent call that
\* returned Some (the empty set before the first one); such an id is also
\* absent from the id set of the preceding call, but an id absent from the
\* preceding call's set and present in the stored set does not make the
\* call return Some.
C8_SomeIffNewSinceLastSome ==
    Len(gate_hist) >= 1 =>
        /\ (Len(gate_hist) >= 2 /\ GateLast.ids = GatePrevious) => GateLast.res.tag = "None"
        /\ gate_before = GateLastSome
        /\ GateLast.res.tag = "Some" <=> GateLast.ids \ GateLastSome # {}
        /\ GateLast.res.tag = "Some" => GateLast.ids \ GatePrevious # {}

\* C8 witness: an id that left the preceding call's set comes back and the
\* gate returns None
C8_Witness ==
    /\ Len(gate_hist) >= 3
    /\ GateLast.res.tag = "None"
    /\ GateLast.ids \ GatePrevious # {}
    /\ GateLast.ids \subseteq GateLastSome

(***************************************************************************)
(* Claims about the filling engines (checked under SpecFill)               *)
(***************************************************************************)
\* C9: fill_orders on an empty order list, in either engine, accumulates
\* nothing and returns Ok with the pool it was called on (both reserves
\* unchanged) and an empty filled list.
C9_EmptyListReturnsPool ==
    grid_orders = <<>> =>
        /\ liquidity_x_diff = 0 /\ liquidity_y_diff = 0 /\ current_surplus = 0
        /\ total_input_amount = 0 /\ total_output_amount = 0
        /\ fill_res \in {Running, Ok([pool |-> fill_self, filled |-> <<>>])}
        /\ fill_pc = "done" =>
              /\ fill_res = Ok([pool |-> fill_self, filled |-> <<>>])
              /\ fill_res.val.pool.asset_x.amount = fill_self.asset_x.amount
              /\ fill_res.val.pool.asset_y.amount = fill_self.asset_y.amount

\* C9 witness: the multi-entry engine has returned for an empty list
C9_Witness ==
    grid_orders = <<>> /\ engine = "multi" /\ fill_pc = "done" /\ IsOk(fill_res)

\* the inputs of C10: a valid pool and 1 to 5 orders made by
\* MultiGridOrder::new with amounts and values up to i64::MAX
C10_Domain ==
    /\ engine = "multi"
    /\ Len(grid_orders) \in 1..5
    /\ fill_self.asset_x.amount \in 1..I64_MAX /\ fill_self.asset_y.amount \in 1..I64_MAX
    /\ 0 < fill_self.fee_num /\ fill_self.fee_num <= fill_self.fee_denom
    /\ \A i \in DOMAIN grid_orders :
          /\ MultiGridOrder_new(grid_orders[i].entries) = Ok(grid_orders[i])
          /\ \A k \in DOMAIN grid_orders[i].entries :
                /\ grid_orders[i].entries[k].token_amount <= I64_MAX
                /\ grid_orders[i].entries[k].bid_value <= I64_MAX
                /\ grid_orders[i].entries[k].ask_value <= I64_MAX

\* C10 (as stated): on such inputs the multi-entry fill_orders neither
\* panics nor returns an error: it never ends with anything but Ok.
C10_FillOrdersNeverFails ==
    (C10_Domain /\ fill_pc = "done") => IsOk(fill_res)

\* the candidates of the coming iteration of the multi-entry engine and the
\* one the loop would pick
NextResults ==
    surplus_results(fill_self, matched_states, liquidity_x_diff, liquidity_y_diff)

NextBest == best_order(fill_self, NextResults)

\* number of entries of order i whose state differs from the input order's
Flipped(i) ==
    Cardinality({k \in DOMAIN grid_orders[i].entries :
                    matched_states[i].entries[k].state # grid_orders[i].entries[k].state})

\* a step that commits a fill
CommitStep ==
    \/ matched_states' # matched_states
    \/ current_surplus' # current_surplus
    \/ liquidity_x_diff' # liquidity_x_diff
    \/ liquidity_y_diff' # liquidity_y_diff
    \/ total_input_amount' # total_input_amount
    \/ total_output_amount' # total_output_amount

\* C11: the running surplus starts at 0 and never decreases; every step that
\* commits a fill raises it strictly, and in the multi-entry engine the new
\* running surplus is the surplus of the committed candidate, which was
\* strictly greater than the running surplus before the commit.
C11_SurplusStrictlyGrows ==
    /\ current_surplus = 0
    /\ [][/\ current_surplus' >= current_surplus
          /\ CommitStep =>
                /\ current_surplus' > current_surplus
                /\ engine = "multi" =>
                      /\ NextBest # 0
                      /\ NextResults[NextBest].val.surplus > current_surplus
                      /\ current_surplus' = NextResults[NextBest].val.surplus]_vars

\* C11 witness: the multi-entry engine committed two fills, the second
\* on top of a positive running surplus
C11_Witness ==
    /\ engine = "multi" /\ fill_pc = "done" /\ IsOk(fill_res)
    /\ current_surplus > 0
    /\ \E i, j \in DOMAIN grid_orders : i # j /\ Flipped(i) = 1 /\ Flipped(j) = 1

\* order i is a ladder whose entries are all Buy in the input
AllBuy(i) == \A k \in DOMAIN grid_orders[i].entries : grid_orders[i].entries[k].state = "Buy"

\* the entries of order i that the run has flipped to Sell
FlippedToSell(i) ==
    {k \in DOMAIN grid_orders[i].entries : matched_states[i].entries[k].state = "Sell"}

\* C12: in the multi-entry engine, for a ladder whose entries are all Buy
\* in the input, the entries flipped to Sell are always the highest-bid ones
\* (no unflipped entry has a strictly higher bid price than a flipped one),
\* each step flips at most one entry of the run, and the entry it flips has
\* a bid price no lower than every entry of the ladder that is still Buy.
C12_BidsFilledInDescendingOrder ==
    /\ [](engine = "multi" =>
            \A i \in DOMAIN grid_orders : AllBuy(i) =>
               /\ matched_states[i].tag \in {"NotMatched", "MatchedBid"}
               /\ \A k \in FlippedToSell(i) :
                     \A j \in DOMAIN grid_orders[i].entries \ FlippedToSell(i) :
                        bid_leq(matched_states[i].entries[j], matched_states[i].entries[k]))
    /\ [][engine = "multi" =>
            \A i \in DOMAIN grid_orders : AllBuy(i) =>
               \A k \in DOMAIN grid_orders[i].entries :
                  (matched_states[i].entries[k].state = "Buy"
                      /\ matched_states'[i].entries[k].state = "Sell") =>
                     /\ \A j \in DOMAIN grid_orders[i].entries :
                           matched_states[i].entries[j].state = "Buy" =>
                              bid_leq(matched_states[i].entries[j],
                                      matched_states[i].entries[k])
                     /\ \A j \in DOMAIN grid_orders[i].entries \ {k} :
                           matched_states'[i].entries[j] = matched_states[i].entries[j]
                     /\ Cardinality(FlippedToSell(i)') = Cardinality(FlippedToSell(i)) + 1]_vars

\* C12 witness: a ladder of two Buy entries, the higher bid first, of which
\* the run has flipped the first and is about to commit the second
C12_Witness ==
    /\ engine = "multi" /\ fill_pc = "loop"
    /\ \E i \in DOMAIN grid_orders :
          /\ AllBuy(i) /\ Len(grid_orders[i].entries) = 2
          /\ ~bid_leq(grid_orders[i].entries[1], grid_orders[i].entries[2])
          /\ FlippedToSell(i) = {1}
          /\ NextBest = i /\ exceeds(NextResults[i].val, current_surplus)

\* sum of the token amounts of the orders the single-order engine chose,
\* from index i on
RECURSIVE chosen_amount(_)
chosen_amount(i) ==
    IF i > Len(grid_orders) THEN 0
    ELSE (IF matched_states[i].tag = "Filled" THEN grid_orders[i].token.amount ELSE 0)
             + chosen_amount(i + 1)

\* the single-order engine returned Ok
SingleOk == engine = "single" /\ fill_pc = "done" /\ IsOk(fill_res)

\* every returned pair is (original, original.into_filled()) with the state
\* flipped and the value moved by bid_value or ask_value, the pairs are in
\* input order, and they are exactly the orders the loop chose
PairsAreFilledOriginals ==
    LET filled == fill_res.val.filled
    IN  /\ \A n \in DOMAIN filled :
              LET o == grid_orders[filled[n].original]
                  f == filled[n].filled
              IN  /\ into_filled(o, overflow_checks) = Ok(f)
                  /\ f.state = IF o.state = "Buy" THEN "Sell" ELSE "Buy"
                  /\ f.value = IF o.state = "Buy" THEN o.value - o.bid_value
                                ELSE o.value + o.ask_value
                  /\ f.bid_value = o.bid_value /\ f.ask_value = o.ask_value
                  /\ f.token = o.token
        /\ \A n, m \in DOMAIN filled : n < m => filled[n].original < filled[m].original
        /\ {filled[n].original : n \in DOMAIN filled}
              = {i \in DOMAIN grid_orders : matched_states[i].tag = "Filled"}

FillPanics ==
    {Panic("Cannot fill bid when ask is already filled"),
     Panic("Cannot fill ask when bid is already filled"),
     Panic("unwrap on None")}

\* C14: in the multi-entry engine the matching state of an order only moves
\* from NotMatched to MatchedBid or MatchedAsk and then keeps its variant; a
\* committed bid fill goes to an order that is not MatchedAsk and has a Buy
\* entry, a committed ask fill to an order that is not MatchedBid and has a
\* Sell entry; fill_orders never ends in a panic of fill_bid or fill_ask.
C14_MatchingStateOneWay ==
    /\ [](engine = "multi" => fill_res \notin FillPanics)
    /\ [][engine = "multi" =>
            /\ \A i \in DOMAIN matched_states :
                  \/ matched_states'[i].tag = matched_states[i].tag
                  \/ /\ matched_states[i].tag = "NotMatched"
                     /\ matched_states'[i].tag \in {"MatchedBid", "MatchedAsk"}
            /\ CommitStep =>
                  /\ NextResults[NextBest].val.matched_state = "Buy" =>
                        /\ matched_states[NextBest].tag # "MatchedAsk"
                        /\ bid_entry(matched_states[NextBest].entries) # 0
                        /\ matched_states'[NextBest].tag = "MatchedBid"
                  /\ NextResults[NextBest].val.matched_state = "Sell" =>
                        /\ matched_states[NextBest].tag # "MatchedBid"
                        /\ ask_entry(matched_states[NextBest].entries) # 0
                        /\ matched_states'[NextBest].tag = "MatchedAsk"]_vars

\* C14 witness: an order matched on its bid side still has a Sell entry
\* whose fill would raise the running surplus, and the run ends without
\* touching it
C14_Witness ==
    /\ engine = "multi" /\ fill_pc = "done" /\ IsOk(fill_res)
    /\ \E i \in DOMAIN grid_orders :
          /\ matched_states[i].tag = "MatchedBid"
          /\ ask_entry(matched_states[i].entries) # 0
          /\ \E r \in {surplus_of_entry(matched_states[i].entries,
                                         ask_entry(matched_states[i].entries),
                                         fill_self, liquidity_x_diff, liquidity_y_diff)} :
                r.tag = "Some" /\ r.val.surplus > current_surplus

\* what calculate_surplus gives for the sides of order i that its matching
\* state leaves eligible: the best bid unless MatchedAsk, the best ask unless
\* MatchedBid
SideCandidates(i) ==
    (IF matched_states[i].tag = "MatchedAsk" THEN {}
     ELSE {surplus_of_entry(matched_states[i].entries,
                            bid_entry(matched_states[i].entries),
                            fill_self, liquidity_x_diff, liquidity_y_diff)})
    \cup
    (IF matched_states[i].tag = "MatchedBid" THEN {}
     ELSE {surplus_of_entry(matched_states[i].entries,
                            ask_entry(matched_states[i].entries),
                            fill_self, liquidity_x_diff, liquidity_y_diff)})

\* the candidates of all eligible sides that pass the overflow filter
PassingCandidates ==
    {r \in UNION {SideCandidates(i) : i \in DOMAIN matched_states} :
        r.tag = "Some" /\ passes_overflow_filter(fill_self, r.val)}

\* an iteration of the multi-entry engine in which no candidate panics
QuietIteration ==
    /\ engine = "multi" /\ fill_pc = "loop"
    /\ \A i \in DOMAIN matched_states : \A r \in SideCandidates(i) : r.tag # "Panic"

\* C15 (as stated): a commit takes a candidate of maximum surplus among the
\* candidates of all eligible sides that pass the overflow filter, and the
\* loop stops only when no such candidate exceeds the running surplus.
C15_CommitsMaximumOfAllSides ==
    [][QuietIteration =>
          /\ CommitStep =>
                /\ \E r \in PassingCandidates :
                      /\ r.val.surplus = current_surplus'
                      /\ r.val.new_x = liquidity_x_diff'
                      /\ r.val.new_y = liquidity_y_diff'
                /\ \A r \in PassingCandidates : r.val.surplus <= current_surplus'
          /\ fill_pc' = "finish" =>
                \A r \in PassingCandidates : r.val.surplus <= current_surplus]_vars

\* v is representable as an i64
FitsI64(v) == v >= -I64_MAX - 1 /\ v <= I64_MAX

\* the orders whose candidate of the coming iteration is removed by the
\* overflow filter
Overflowing ==
    {i \in DOMAIN matched_states :
        /\ NextResults[i].tag = "Some"
        /\ ~passes_overflow_filter(fill_self, NextResults[i].val)}

\* C16: in the multi-entry engine the running deltas added to the pool
\* reserves always fit a signed 64-bit integer, so no committed candidate
\* overflows a reserve; and in an iteration in which the candidate of some
\* order overflows while another order has a candidate that passes the
\* filter and exceeds the running surplus, the loop does not stop: it
\* commits a passing candidate of another order.
C16_OverflowCandidatesSkipped ==
    /\ [](engine = "multi" =>
            /\ FitsI64(fill_self.asset_x.amount + liquidity_x_diff)
            /\ FitsI64(fill_self.asset_y.amount + liquidity_y_diff))
    /\ [][(/\ QuietIteration
            /\ Overflowing # {}
            /\ \E j \in DOMAIN matched_states \ Overflowing :
                  /\ NextResults[j].tag = "Some"
                  /\ NextResults[j].val.surplus > current_surplus) =>
               /\ fill_pc' # "finish"
               /\ NextBest \notin Overflowing \cup {0}
               /\ liquidity_x_diff' = NextResults[NextBest].val.new_x
               /\ liquidity_y_diff' = NextResults[NextBest].val.new_y
               /\ current_surplus' = NextResults[NextBest].val.surplus
               /\ matched_states'[NextBest] # matched_states[NextBest]]_vars

\* C16 witness: one order was committed in a run in which another order
\* has a candidate of larger surplus that overflows asset_y
C16_Witness ==
    /\ engine = "multi" /\ fill_pc = "loop"
    /\ \E i \in Overflowing : \E j \in DOMAIN matched_states :
          /\ matched_states[j].tag # "NotMatched"
          /\ matched_states[i].tag = "NotMatched"
          /\ NextResults[i].val.surplus > current_surplus

\* the multi-entry engine has returned without a panic
MultiReturned == engine = "multi" /\ fill_pc = "done" /\ fill_res.tag # "Panic"

\* the input of the numeraire quoted for the traded asset the run took out
NetInput == input_amount(fill_self, Token(ASSET_Y_ID, Abs(liquidity_y_diff)))

\* C17: the pool the engine was called on is never changed while the loop
\* runs; when fill_orders returns, it returns Ok with that pool after one
\* swap chosen by the sign of the final liquidity_y_diff: positive, the swap
\* of liquidity_y_diff of the traded asset in (asset_y up by it, asset_x
\* down by the quoted output); negative, the swap of
\* input_amount(|liquidity_y_diff|) of the numeraire in (asset_x up by it,
\* asset_y down by the output quoted for it); zero, the pool itself.
C17_OneNetSwapBySign ==
    /\ [](MultiReturned =>
            /\ IsOk(fill_res)
            /\ liquidity_y_diff = 0 => fill_res.val.pool = fill_self
            /\ liquidity_y_diff > 0 =>
                  /\ Ok(fill_res.val.pool)
                        = with_swap(fill_self, Token(ASSET_Y_ID, liquidity_y_diff))
                  /\ fill_res.val.pool.asset_y.amount
                        = fill_self.asset_y.amount + liquidity_y_diff
                  /\ fill_res.val.pool.asset_x.amount
                        = fill_self.asset_x.amount
                            - output_amount(fill_self,
                                            Token(ASSET_Y_ID, liquidity_y_diff)).val.amount
            /\ liquidity_y_diff < 0 =>
                  /\ IsOk(NetInput)
                  /\ NetInput.val.token_id = ERG_TOKEN_ID
                  /\ Ok(fill_res.val.pool) = with_swap(fill_self, NetInput.val)
                  /\ fill_res.val.pool.asset_x.amount
                        = fill_self.asset_x.amount + NetInput.val.amount
                  /\ fill_res.val.pool.asset_y.amount
                        = fill_self.asset_y.amount
                            - output_amount(fill_self, NetInput.val).val.amount)
    /\ [][fill_self' = fill_self /\ (fill_res' # fill_res => fill_pc' = "done")]_vars

\* C17 witness: a run that committed two fills and took the traded asset
\* out of the pool has returned
C17_Witness ==
    /\ MultiReturned /\ IsOk(fill_res)
    /\ liquidity_y_diff < 0
    /\ \E i \in DOMAIN grid_orders : Flipped(i) = 2

\* the only entry order i offers is a bid for more of the traded asset than
\* the pool holds on top of the running delta
WantsMoreThanPool(i) ==
    /\ matched_states[i].tag # "MatchedAsk"
    /\ matched_states[i].tag = "NotMatched" => ask_entry(matched_states[i].entries) = 0
    /\ bid_entry(matched_states[i].entries) # 0
    /\ matched_states[i].entries[bid_entry(matched_states[i].entries)].token_amount
          - liquidity_y_diff > fill_self.asset_y.amount

\* the iteration treats the other orders as if the orders in `out` were not
\* there: it commits the best remaining candidate if it exceeds the running
\* surplus and goes to the code after the loop otherwise
ContinuesWithout(out) ==
    IF NextBest # 0 /\ exceeds(NextResults[NextBest].val, current_surplus)
    THEN /\ NextBest \notin out
         /\ fill_pc' = "loop"
         /\ matched_states'[NextBest] # matched_states[NextBest]
         /\ current_surplus' = NextResults[NextBest].val.surplus
    ELSE fill_pc' = "finish" /\ matched_states' = matched_states

RECURSIVE total_entries(_)
total_entries(i) ==
    IF i > Len(grid_orders) THEN 0
    ELSE Len(grid_orders[i].entries) + total_entries(i + 1)

\* the entries of a ladder that are in `state`
EntriesIn(entries, state) == {k \in DOMAIN entries : entries[k].state = state}

\* the steps a run can still take: one per fill that the entries allow, the
\* step that leaves the loop and the step that returns
Remaining ==
    (total_entries(1) - fills)
        + (IF fill_pc = "loop" THEN 2 ELSE IF fill_pc = "finish" THEN 1 ELSE 0)

\* C19: every run of the multi-entry fill_orders ends after a bounded
\* number of steps: Remaining is a natural number that every step lowers.
\* Each committing iteration flips exactly one entry of the order it
\* commits, on the side being filled, so that the entries of that order
\* still eligible on that side shrink by that entry; every other order is
\* untouched; an iteration that does not commit leaves the loop; and the
\* number of committed fills never exceeds the number of entries of the
\* input orders.
C19_FillOrdersTerminates ==
    /\ [](engine = "multi" => fills <= total_entries(1) /\ Remaining >= 0)
    /\ [][engine = "multi" =>
            /\ Remaining' < Remaining
            /\ fill_pc = "loop" =>
                  \/ fills' = fills + 1 /\ fill_pc' \in {"loop", "done"}
                  \/ fills' = fills /\ fill_pc' \in {"finish", "done"}
            /\ fill_pc = "finish" => fills' = fills /\ fill_pc' = "done"
            /\ fills' # fills =>
                  /\ \E side \in {NextResults[NextBest].val.matched_state} :
                        /\ EntriesIn(matched_states'[NextBest].entries, side)
                              = EntriesIn(matched_states[NextBest].entries, side)
                                  \ {IF side = "Buy"
                                     THEN bid_entry(matched_states[NextBest].entries)
                                     ELSE ask_entry(matched_states[NextBest].entries)}
                        /\ Cardinality(EntriesIn(matched_states'[NextBest].entries, side))
                              = Cardinality(EntriesIn(matched_states[NextBest].entries,
                                                      side)) - 1
                  /\ \A i \in DOMAIN matched_states \ {NextBest} :
                        matched_states'[i] = matched_states[i]]_vars

\* C19 witness: a run that committed as many fills as the orders have
\* entries has returned
C19_Witness ==
    /\ engine = "multi" /\ fill_pc = "done" /\ IsOk(fill_res)
    /\ fills = 2 /\ fills = total_entries(1)

(***************************************************************************)
(* Claims about the ladder (checked under SpecLadder)                      *)
(***************************************************************************)
\* entry a has a bid price (bid_value / token_amount) no higher than b's,
\* and the same for the ask price, by cross multiplication
BidPriceLeq(a, b) == a.bid_value * b.token_amount <= b.bid_value * a.token_amount
AskPriceLeq(a, b) == a.ask_value * b.token_amount <= b.ask_value * a.token_amount

\* `after` is `before` with exactly the entry at k put in state `to`
FlipsOnly(before, after, k, to) ==
    /\ Len(after) = Len(before)
    /\ after[k] = [before[k] EXCEPT !.state = to]
    /\ \A j \in DOMAIN before \ {k} : after[j] = before[j]

\* C20: into_fill_bid flips exactly one entry from Buy to Sell, a Buy entry
\* whose bid price is maximal among the Buy entries, and leaves every other
\* entry and all amounts and values as they were; into_fill_ask flips
\* exactly one Sell entry of minimal ask price to Buy; without an entry in
\* the required state they return NoBidOrders / NoAskOrders and the caller
\* has the entries it had.
C20_FillFlipsBestEntry ==
    LET before == ladder_call.before
        res == ladder_call.res
    IN  /\ ladder_call.op = "into_fill_bid" =>
              IF \A k \in DOMAIN before : before[k].state # "Buy"
              THEN res = Err("NoBidOrders") /\ ladder = before
              ELSE /\ IsOk(res) /\ ladder = res.val
                   /\ \E k \in DOMAIN before :
                         /\ before[k].state = "Buy"
                         /\ FlipsOnly(before, res.val, k, "Sell")
                         /\ \A j \in DOMAIN before :
                               before[j].state = "Buy" => BidPriceLeq(before[j], before[k])
        /\ ladder_call.op = "into_fill_ask" =>
              IF \A k \in DOMAIN before : before[k].state # "Sell"
              THEN res = Err("NoAskOrders") /\ ladder = before
              ELSE /\ IsOk(res) /\ ladder = res.val
                   /\ \E k \in DOMAIN before :
                         /\ before[k].state = "Sell"
                         /\ FlipsOnly(before, res.val, k, "Buy")
                         /\ \A j \in DOMAIN before :
                               before[j].state = "Sell" => AskPriceLeq(before[k], before[j])

\* C20 witness: into_fill_ask was applied to a ladder of three Sell entries
\* whose lowest ask is not the first one
C20_Witness ==
    /\ ladder_call.op = "into_fill_ask" /\ IsOk(ladder_call.res)
    /\ Len(ladder_call.before) = 3
    /\ \A k \in 1..3 : ladder_call.before[k].state = "Sell"
    /\ ~AskPriceLeq(ladder_call.before[1], ladder_call.before[2])
    /\ ladder[2].state = "Buy"

(***************************************************************************)
(* C21 (checked under SpecGate)                                            *)
(***************************************************************************)
\* the id set of the most recent call, the last one included, that returned
\* Some, or the empty set
GateStoredBySome ==
    LET somes == {j \in 1..Len(gate_hist) : gate_hist[j].res.tag = "Some"}
    IN  IF somes = {} THEN {}
        ELSE gate_hist[CHOOSE j \in somes : \A k \in somes : k <= j].ids

\* C21: a check_box_ids call that returns None leaves the stored id set as
\* it was, also when ids of the stored set are missing from the argument; a
\* call that returns Some stores exactly the given id set and returns
\* (stored \ given, given \ stored) with a non-empty second component; so
\* the stored set is the argument of the most recent call that returned
\* Some, or empty.
C21_StoredSetFollowsSome ==
    /\ current_ids = GateStoredBySome
    /\ Len(gate_hist) >= 1 =>
          /\ GateLast.res.tag = "None" =>
                current_ids = gate_before /\ GateLast.ids \subseteq gate_before
          /\ GateLast.res.tag = "Some" =>
                /\ current_ids = GateLast.ids
                /\ GateLast.res.spent_ids = gate_before \ GateLast.ids
                /\ GateLast.res.new_ids = GateLast.ids \ gate_before
                /\ GateLast.res.new_ids # {}

\* C21 witness: after a call that returned Some with spent ids, a call with
\* fewer ids than are stored returned None and the stored set kept the
\* removed id
C21_Witness ==
    /\ Len(gate_hist) >= 3
    /\ gate_hist[Len(gate_hist) - 1].res.tag = "Some"
    /\ gate_hist[Len(gate_hist) - 1].res.spent_ids # {}
    /\ GateLast.res.tag = "None"
    /\ GateLast.ids # gate_before
    /\ current_ids = gate_before /\ current_ids \ GateLast.ids # {}

(***************************************************************************)
(* C22 (checked under SpecOverlay)                                         *)
(***************************************************************************)
\* the records of s whose id is not spent, in the order of s
RECURSIVE Unspent(_)
Unspent(s) ==
    IF s = <<>> THEN <<>>
    ELSE IF Head(s) \in spent_boxes THEN Unspent(Tail(s))
    ELSE <<Head(s)>> \o Unspent(Tail(s))

\* the part of the view that follows the base records
ViewTail == SubSeq(view, Len(Unspent(ov_base)) + 1, Len(view))

\* C22: for an overlay replayed from transactions in dependency order no id
\* is both spent and created; the view yields the base records whose id is
\* not spent, in base order, followed by the decodable records still in the
\* created map, each once; it never yields a record whose id is spent.
C22_OverlayView ==
    /\ spent_boxes \cap created_boxes = {}
    /\ \A k \in DOMAIN view : view[k] \notin spent_boxes
    /\ ov_pc = "done" =>
          /\ SubSeq(view, 1, Len(Unspent(ov_base))) = Unspent(ov_base)
          /\ {ViewTail[k] : k \in DOMAIN ViewTail} = {b \in created_boxes : Decodes(b)}
          /\ Len(ViewTail) = Cardinality({b \in created_boxes : Decodes(b)})

\* C22 witness: a chained transaction spent a box the first one created, a
\* base record was spent and filtered out, a base record and a created record
\* were yielded, and an undecodable created box was left out
C22_Witness ==
    /\ ov_pc = "done"
    /\ Len(ov_base) = 2 /\ Len(Unspent(ov_base)) = 1
    /\ Len(view) = 2
    /\ \E b \in created_boxes : ~Decodes(b)
    /\ spent_boxes \ {ov_base[k] : k \in DOMAIN ov_base} # {}

(***************************************************************************)
(* Claims about the polling loop (checked under SpecMatcher)               *)
(***************************************************************************)
\* the current iteration has run to its end
IterationOver == matcher_pc = "poll" /\ cur_poll.polled

\* C23: in every iteration of the polling loop the filling engine is invoked
\* only if the gate returned Some for the ids of the overlaid order and pool
\* records of that iteration, and the loop sleeps for the polling interval
\* exactly in the iterations where the gate returned None.
C23_EngineOnlyAfterSomeSleepOnNone ==
    cur_poll.polled =>
        /\ cur_poll.gate = check_box_ids(cur_poll.gate_before, id_vec(cur_poll.ids)).res.tag
        /\ cur_poll.engine => cur_poll.gate = "Some"
        /\ cur_poll.slept => cur_poll.gate = "None" /\ ~cur_poll.engine
        /\ IterationOver => (cur_poll.slept <=> cur_poll.gate = "None")
        /\ matcher_pc = "match" => cur_poll.gate = "Some"
        /\ matcher_pc = "sleep" => cur_poll.gate = "None"

\* C23 witness: an iteration whose gate returned Some ran the engine, and
\* the next iteration, with records that decode but no new id, slept
C23_Witness ==
    /\ IterationOver /\ prev_poll.polled
    /\ prev_poll.engine /\ prev_poll.gate = "Some" /\ ~prev_poll.slept
    /\ cur_poll.slept /\ cur_poll.has_match
    /\ cur_poll.ids # prev_poll.ids

\* C24: the polling loop never ends because of a failure: a failed fetch, a
\* failed match pass or a failed submission is only reported as log output,
\* and the loop goes on to a further poll iteration.
C24_LoopNeverEnds == matcher_pc \in {"idle", "poll", "match", "sleep"}

\* C25: when the match pass fails in one iteration, the error is logged and
\* the match is run again in the next iteration if the same order and pool
\* records are still reported.
C25_FailedMatchRetried ==
    (IterationOver /\ prev_poll.polled) =>
        /\ prev_poll.result = "Err" => prev_poll.printed = "Error filling orders"
        /\ (prev_poll.result = "Err" /\ cur_poll.ids = prev_poll.ids /\ cur_poll.has_match)
              => cur_poll.engine

(***************************************************************************)
(* C26 (checked under SpecDecode)                                          *)
(***************************************************************************)
\* C26: decoding rejects every order record with insufficient collateral: a
\* GridOrder record in Buy state whose value is below MIN_BOX_VALUE +
\* bid_value, and a MultiGridOrder record whose value is below
\* MIN_BOX_VALUE plus the sum of bid_value over its Buy entries, for every
\* mix of Buy and Sell entries and held tokens, yields an error.
C26_InsufficientCollateralRejected ==
    IsOk(decoded.res) =>
        /\ decoded.by = "GridOrder" =>
              (decoded.res.val.state = "Buy" =>
                  decoded.res.val.value >= MIN_BOX_VALUE + decoded.res.val.bid_value)
        /\ decoded.by = "MultiGridOrder" =>
              decoded.res.val.value >=
                  MIN_BOX_VALUE + sum_u64(decoded.res.val.entries, 1, {"Buy"}, "bid_value")

(***************************************************************************)
(* Claims about the result of the multi-entry engine (under SpecFill)      *)
(***************************************************************************)
\* the multi-entry engine has returned Ok
MultiOk == MultiReturned /\ IsOk(fill_res)

\* token amounts of the entries k.. that went from Sell to Buy (ask fills)
\* minus those of the entries that went from Buy to Sell (bid fills)
RECURSIVE entries_delta_y(_, _, _)
entries_delta_y(old, new, k) ==
    IF k > Len(old) THEN 0
    ELSE (IF old[k].state = "Sell" /\ new[k].state = "Buy" THEN old[k].token_amount
          ELSE IF old[k].state = "Buy" /\ new[k].state = "Sell" THEN -old[k].token_amount
          ELSE 0) + entries_delta_y(old, new, k + 1)

\* the same over the orders i..
RECURSIVE committed_delta_y(_)
committed_delta_y(i) ==
    IF i > Len(grid_orders) THEN 0
    ELSE entries_delta_y(grid_orders[i].entries, matched_states[i].entries, 1)
             + committed_delta_y(i + 1)

\* C27: after a multi-entry run the returned pool's asset_y is the original
\* asset_y plus the final delta_y, the amounts of the committed ask fills
\* minus those of the committed bid fills; with a negative delta_y the net
\* swap releases exactly |delta_y| of the traded asset.
C27_ReserveYMovesByDelta ==
    MultiOk =>
        /\ liquidity_y_diff = committed_delta_y(1)
        /\ fill_res.val.pool.asset_y.amount = fill_self.asset_y.amount + liquidity_y_diff

\* value given up by the orders of the pairs k..: original minus filled
RECURSIVE freed_by_orders(_, _)
freed_by_orders(pairs, k) ==
    IF k > Len(pairs) THEN 0
    ELSE (grid_orders[pairs[k].original].value - pairs[k].filled.value)
             + freed_by_orders(pairs, k + 1)

\* the numeraire the result frees: what the orders give up plus what the
\* pool gives up
FreedNumeraire ==
    freed_by_orders(fill_res.val.filled, 1)
        + (fill_self.asset_x.amount - fill_res.val.pool.asset_x.amount)

\* C28: after a successful multi-entry run the final running surplus is the
\* numeraire freed by the result, the sum over the returned pairs of
\* original value minus filled value plus original pool asset_x minus
\* returned pool asset_x, and it is positive when the filled list is not
\* empty.
C28_SurplusIsFreedNumeraire ==
    MultiOk =>
        /\ current_surplus = FreedNumeraire
        /\ fill_res.val.filled # <<>> => FreedNumeraire > 0

\* C29: in the result of a multi-entry run every order whose matching state
\* left NotMatched is in the filled list exactly once, with the entries of
\* its final matching state, and every order still NotMatched is absent; no
\* committed fill is in the deltas while its order is missing from the list.
C29_MatchedOrdersReturnedOnce ==
    MultiOk =>
        /\ \A i \in DOMAIN grid_orders :
              Cardinality({k \in DOMAIN fill_res.val.filled :
                              fill_res.val.filled[k].original = i})
                  = IF matched_states[i].tag = "NotMatched" THEN 0 ELSE 1
        /\ \A k \in DOMAIN fill_res.val.filled :
              fill_res.val.filled[k].filled.entries
                  = matched_states[fill_res.val.filled[k].original].entries

(***************************************************************************)
(* C30: match_orders submits a settlement only when at least one order was *)
(* filled and the surplus, the pool's asset_x plus the original orders'    *)
(* values minus the returned pool's asset_x plus the filled orders'        *)
(* values, is strictly greater than MAX_FEE; the outputs of a submitted    *)
(* transaction (new pool, filled orders, change = surplus - MAX_FEE,       *)
(* fee = MAX_FEE) sum to exactly its inputs (pool box, original order      *)
(* boxes).                                                                 *)
(***************************************************************************)
RECURSIVE SeqSum(_)
SeqSum(values) == IF values = <<>> THEN 0 ELSE Head(values) + SeqSum(Tail(values))

OriginalValues == [k \in DOMAIN fill_res.val.filled |-> grid_orders[fill_res.val.filled[k].original].value]
FilledValues == [k \in DOMAIN fill_res.val.filled |-> fill_res.val.filled[k].filled.value]

SettlementSurplus ==
    (fill_self.asset_x.amount + SeqSum(OriginalValues))
        - (fill_res.val.pool.asset_x.amount + SeqSum(FilledValues))

C30_SettlementOnlyAboveFeeAndBalanced ==
    settlement.submitted =>
        /\ fill_res.tag = "Ok"
        /\ fill_res.val.filled # <<>>
        /\ SettlementSurplus > MAX_FEE
        /\ settlement.inputs = <<fill_self.asset_x.amount>> \o OriginalValues
        /\ settlement.outputs = <<fill_res.val.pool.asset_x.amount>> \o FilledValues
                                    \o <<SettlementSurplus - MAX_FEE, MAX_FEE>>
        /\ SeqSum(settlement.outputs) = SeqSum(settlement.inputs)

C30_Witness ==
    /\ settlement.submitted /\ settlement.tag = "OkSome"
    /\ Len(fill_res.val.filled) = 2
    /\ SeqSum(settlement.outputs) = SeqSum(settlement.inputs)

====
